---- MODULE Spec2Model ----
(***************************************************************************)
(* NexusPay SVM programs: bridge, wallet, paymaster and entry point.       *)
(*                                                                         *)
(* Every instruction is one atomic action.  An instruction that returns    *)
(* Err (or panics) leaves every account as it was: the runtime discards    *)
(* the writes of a failed instruction.  The outcome of the last            *)
(* instruction is kept in ret (operation, error kind, arguments).          *)
(*                                                                         *)
(* u64 quantities are modelled at a reduced word width (WordBits); a       *)
(* 4-byte prefix of a little-endian u64 is the low half of the word.       *)
(* Timestamps (i64 seconds) are plain integers.                            *)
(***************************************************************************)
EXTENDS Integers, Sequences, FiniteSets, TLC

VARIABLES
    build,          \* how the programs were compiled (overflow checks on/off)
    clock,          \* Clock::get()?.unix_timestamp
    bridges,        \* bridge account per authority (PDA of ["bridge", authority])
    lock_records,   \* LockRecord accounts, keyed by their PDA seeds
    mint_records,   \* MintRecord accounts, keyed by their PDA seeds
    burn_records,   \* BurnRecord accounts, keyed by their PDA seeds
    wallet,         \* one Wallet account
    paymaster,      \* one Paymaster account
    entry_point,    \* the EntryPoint account
    paymaster_stake,\* PaymasterStake account per paymaster (PDA of its key)
    events,         \* events emitted by the last entry-point instruction
    ret             \* outcome of the last instruction

vars == <<build, clock, bridges, lock_records, mint_records, burn_records,
          wallet, paymaster, entry_point, paymaster_stake, events, ret>>

bridgeVars == <<bridges, lock_records, mint_records, burn_records>>

-----------------------------------------------------------------------------
(* Bounds of the model *)

WordBits == 10
StampBits == 20
MaxBridgeNonce == 1
MaxLedgerNonce == 3
MaxChains == 2
MaxNonce == 3
MaxBatch == 3
MaxTotalOps == 4
MaxTokens == 2
MaxPostOps == 2

(* Program constants *)

MAX_VALIDATORS == 20
MAX_CHAINS == 50

U64_MAX == 2^WordBits - 1
\* i64, StampBits wide
I64_MAX == 2^(StampBits - 1) - 1
HalfWord == 2^(WordBits \div 2)

-----------------------------------------------------------------------------
(* Integer arithmetic of the build *)

\* a + b on u64: the true sum, or with the overflow flag set
Overflows(n) == n > U64_MAX \/ n < 0

\* the value a wrapping build stores
Wrap(n) == n % (U64_MAX + 1)

\* a + b on i64: overflow flag, and the value a wrapping build stores
OverflowsI64(n) == n > I64_MAX \/ n < -I64_MAX - 1
WrapI64(n) == ((n + I64_MAX + 1) % (2 * (I64_MAX + 1))) - (I64_MAX + 1)

-----------------------------------------------------------------------------
(* Outcome of the last instruction *)

\* The arguments of the last instruction that the properties read; for
\* mint_tokens, signed is the number of supplied signatures that a real
\* check would accept for the validator at the same index; for post_op,
\* refund is the refund the handler computed, -1 when it computed none.  The
\* helpers applied on their own and simulate_validation add the operand.
NoArgs ==
    [lock_id |-> 0, source_chain |-> 0, signed |-> 0, refund |-> -1]

Ret(op, err, args) == [op |-> op, err |-> err] @@ args @@ NoArgs


\* A failed instruction: nothing but the outcome changes.
Fail(op, err, args, unchanged) ==
    /\ ret' = Ret(op, err, args)
    /\ UNCHANGED unchanged

-----------------------------------------------------------------------------
(* Bridge program *)

Authorities == {"A1"}

\* the authorities of the two-bridge specification
BothAuthorities == {"A1", "A2"}
ChainIds == {1, 2}
LockAmounts == {1}
TokenMints == {"None", "M1"}
\* what the asset-transfer collaborator answers (the optional accounts of the
\* chosen asset path are supplied)
Transfers == {"ok", "rejected"}

NoBridge ==
    [exists |-> FALSE, authority |-> "", validators |-> <<>>, threshold |-> 0,
     nonce |-> 0, total_locked |-> 0, total_minted |-> 0, is_paused |-> FALSE,
     supported_chains |-> <<>>]

\* validator lists an instruction may carry
ValidatorLists ==
    { <<>>, <<"V1", "V2", "V3">>,
      [i \in 1..MAX_VALIDATORS |-> "V1"],
      [i \in 1..(MAX_VALIDATORS + 1) |-> "V1"] }

Thresholds == {0, 1, 2}

\* a signature: who made it, over which message
Sig(signer, msg) == [signer |-> signer, msg |-> msg]

\* signature lists an instruction may carry
SigLists(msg) ==
    { <<>>,
      <<Sig("V1", msg)>>,
      <<Sig("V1", msg), Sig("V2", msg)>>,
      <<Sig("V2", msg), Sig("V1", msg)>>,
      <<Sig("V1", msg), Sig("V2", msg), Sig("V3", msg), Sig("V1", msg)>> }

\* bridge.supported_chains.iter().any(|c| c.chain_id == id && c.is_active)
\* a check that passes as soon as any chain is registered
chain_exists_NonEmpty(b, id) == Len(b.supported_chains) > 0

chain_exists(b, id) ==
    \E i \in 1..Len(b.supported_chains) :
        b.supported_chains[i].chain_id = id /\ b.supported_chains[i].is_active

\* position found by supported_chains.iter_mut().find(|c| c.chain_id == id), 0 if none
find_chain(b, id) ==
    IF \E i \in 1..Len(b.supported_chains) : b.supported_chains[i].chain_id = id
    THEN CHOOSE i \in 1..Len(b.supported_chains) :
            /\ b.supported_chains[i].chain_id = id
            /\ \A j \in 1..(i - 1) : b.supported_chains[j].chain_id # id
    ELSE 0

\* the hashed settlement message (source_tx_hash and recipient held fixed)
message_hash(lock_id, source_chain, token_mint, amount) ==
    <<lock_id, source_chain, token_mint, amount>>

\* what a real signature check decides: the validator signed this message
SignatureVerifies(message, signature, validator) ==
    signature.signer = validator /\ signature.msg = message

\* verify_signature as the bridge program has it
verify_signature(message, signature, validator) == TRUE

\* the counting loop of mint_tokens
RECURSIVE CountValid(_, _, _, _)
CountValid(message, sigs, validators, i) ==
    IF i > Len(sigs) THEN 0
    ELSE (IF i <= Len(validators) /\ verify_signature(message, sigs[i], validators[i])
          THEN 1 ELSE 0)
         + CountValid(message, sigs, validators, i + 1)

valid_signatures(message, sigs, validators) == CountValid(message, sigs, validators, 1)

\* how many of the supplied signatures the validator at the same index made
Signed(message, sigs, validators) ==
    Cardinality({i \in 1..Len(sigs) :
                    i <= Len(validators)
                    /\ SignatureVerifies(message, sigs[i], validators[i])})

\* seeds of the MintRecord PDA: 4-byte prefixes of lock_id and source_chain
MintRecordSeeds(lock_id, source_chain) ==
    <<"mint", lock_id % HalfWord, source_chain % HalfWord>>

\* seeds of the LockRecord / BurnRecord PDA
LockRecordSeeds(a, nonce) == <<"lock", a, nonce>>
BurnRecordSeeds(a, nonce) == <<"burn", a, nonce>>

\* the checks without the cap on the number of validators
ValidatorSetError_NoCap(validators, threshold) ==
    IF ~(threshold > 0) THEN "InvalidThreshold"
    ELSE IF ~(Len(validators) >= threshold) THEN "InsufficientValidators"
    ELSE "Ok"

\* the three require! checks of initialize_bridge and update_validators
ValidatorSetError(validators, threshold) ==
    IF ~(threshold > 0) THEN "InvalidThreshold"
    ELSE IF ~(Len(validators) >= threshold) THEN "InsufficientValidators"
    ELSE IF ~(Len(validators) <= MAX_VALIDATORS) THEN "TooManyValidators"
    ELSE "Ok"

initialize_bridge(a, validators, threshold) ==
    LET args == NoArgs
        op == "initialize_bridge"
        e == ValidatorSetError(validators, threshold)
    IN  IF bridges[a].exists
        THEN Fail(op, "AccountAlreadyInUse", args, bridgeVars)
        ELSE IF e # "Ok"
        THEN Fail(op, e, args, bridgeVars)
        ELSE /\ bridges' = [bridges EXCEPT ![a] =
                    [exists |-> TRUE, authority |-> a, validators |-> validators,
                     threshold |-> threshold, nonce |-> 0, total_locked |-> 0,
                     total_minted |-> 0, is_paused |-> FALSE,
                     supported_chains |-> <<>>]]
             /\ ret' = Ret(op, "Ok", args)
             /\ UNCHANGED <<lock_records, mint_records, burn_records>>

update_validators(a, caller, new_validators, new_threshold) ==
    LET args == NoArgs
        op == "update_validators"
        e == ValidatorSetError(new_validators, new_threshold)
    IN  IF ~bridges[a].exists
        THEN Fail(op, "AccountNotInitialized", args, bridgeVars)
        ELSE IF caller # bridges[a].authority
        THEN Fail(op, "ConstraintHasOne", args, bridgeVars)
        ELSE IF e # "Ok"
        THEN Fail(op, e, args, bridgeVars)
        ELSE /\ bridges' = [bridges EXCEPT ![a].validators = new_validators,
                                           ![a].threshold = new_threshold]
             /\ ret' = Ret(op, "Ok", args)
             /\ UNCHANGED <<lock_records, mint_records, burn_records>>

set_paused(a, caller, is_paused) ==
    LET args == NoArgs
        op == "set_paused"
    IN  IF ~bridges[a].exists
        THEN Fail(op, "AccountNotInitialized", args, bridgeVars)
        ELSE IF caller # bridges[a].authority
        THEN Fail(op, "ConstraintHasOne", args, bridgeVars)
        ELSE /\ bridges' = [bridges EXCEPT ![a].is_paused = is_paused]
             /\ ret' = Ret(op, "Ok", args)
             /\ UNCHANGED <<lock_records, mint_records, burn_records>>

add_supported_chain(a, caller, chain_id) ==
    LET args == NoArgs
        op == "add_supported_chain"
    IN  IF ~bridges[a].exists
        THEN Fail(op, "AccountNotInitialized", args, bridgeVars)
        ELSE IF caller # bridges[a].authority
        THEN Fail(op, "ConstraintHasOne", args, bridgeVars)
        ELSE IF ~(Len(bridges[a].supported_chains) < MAX_CHAINS)
        THEN Fail(op, "TooManyChains", args, bridgeVars)
        ELSE /\ bridges' = [bridges EXCEPT ![a].supported_chains =
                    Append(@, [chain_id |-> chain_id, is_active |-> TRUE,
                               total_volume |-> 0])]
             /\ ret' = Ret(op, "Ok", args)
             /\ UNCHANGED <<lock_records, mint_records, burn_records>>

\* bridge.supported_chains with amount added to the volume of the first entry
\* whose chain_id is id (the list itself when there is none)
AddVolume(b, id, amount) ==
    LET i == find_chain(b, id)
    IN  IF i = 0 THEN b.supported_chains
        ELSE [b.supported_chains EXCEPT ![i].total_volume = Wrap(@ + amount)]

VolumeOverflows(b, id, amount) ==
    LET i == find_chain(b, id)
    IN  i # 0 /\ Overflows(b.supported_chains[i].total_volume + amount)

mint_tokens(a, lock_id, source_chain, token_mint, amount, validator_signatures, transfer) ==
    LET b == bridges[a]
        op == "mint_tokens"
        seeds == MintRecordSeeds(lock_id, source_chain)
        msg == message_hash(lock_id, source_chain, token_mint, amount)
        args == [lock_id |-> lock_id, source_chain |-> source_chain,
                 signed |-> Signed(msg, validator_signatures, b.validators)]
        \* the account the init constraint has just created
        fresh == [lock_id |-> 0, source_chain |-> 0, amount |-> 0,
                  is_minted |-> FALSE]
    IN  IF ~b.exists
        THEN Fail(op, "AccountNotInitialized", args, bridgeVars)
        ELSE IF seeds \in DOMAIN mint_records
        THEN Fail(op, "AccountAlreadyInUse", args, bridgeVars)
        ELSE IF b.is_paused
        THEN Fail(op, "BridgePaused", args, bridgeVars)
        ELSE IF ~(Len(validator_signatures) >= b.threshold)
        THEN Fail(op, "InsufficientSignatures", args, bridgeVars)
        ELSE IF ~chain_exists(b, source_chain)
        THEN Fail(op, "UnsupportedChain", args, bridgeVars)
        ELSE IF ~(valid_signatures(msg, validator_signatures, b.validators) >= b.threshold)
        THEN Fail(op, "InsufficientValidSignatures", args, bridgeVars)
        ELSE IF fresh.is_minted
        THEN Fail(op, "AlreadyMinted", args, bridgeVars)
        ELSE IF transfer = "rejected"
        THEN Fail(op, "TransferFailed", args, bridgeVars)
        ELSE IF build.overflow_checks
                /\ (Overflows(b.total_minted + amount)
                    \/ VolumeOverflows(b, source_chain, amount))
        THEN Fail(op, "Panic", args, bridgeVars)
        ELSE /\ mint_records' = (seeds :>
                    [fresh EXCEPT !.lock_id = lock_id, !.source_chain = source_chain,
                                  !.amount = amount, !.is_minted = TRUE])
                    @@ mint_records
             /\ bridges' = [bridges EXCEPT
                    ![a].total_minted = Wrap(@ + amount),
                    ![a].supported_chains = AddVolume(b, source_chain, amount)]
             /\ ret' = Ret(op, "Ok", args)
             /\ UNCHANGED <<lock_records, burn_records>>

\* the counter left where it was
next_nonce_Same(nonce) == nonce

\* bridge.nonce += 1
next_nonce(nonce) == Wrap(nonce + 1)

lock_tokens(a, amount, destination_chain, token_mint, transfer) ==
    LET b == bridges[a]
        op == "lock_tokens"
        args == NoArgs
        seeds == LockRecordSeeds(a, b.nonce)
        lock_id == b.nonce
    IN  IF ~b.exists
        THEN Fail(op, "AccountNotInitialized", args, bridgeVars)
        ELSE IF seeds \in DOMAIN lock_records
        THEN Fail(op, "AccountAlreadyInUse", args, bridgeVars)
        ELSE IF b.is_paused
        THEN Fail(op, "BridgePaused", args, bridgeVars)
        ELSE IF ~chain_exists(b, destination_chain)
        THEN Fail(op, "UnsupportedChain", args, bridgeVars)
        ELSE IF build.overflow_checks /\ Overflows(b.nonce + 1)
        THEN Fail(op, "Panic", args, bridgeVars)
        ELSE IF token_mint = "None" /\ ~(amount > 0)
        THEN Fail(op, "InvalidAmount", args, bridgeVars)
        ELSE IF transfer = "rejected"
        THEN Fail(op, "TransferFailed", args, bridgeVars)
        ELSE IF build.overflow_checks
                /\ (Overflows(b.total_locked + amount)
                    \/ VolumeOverflows(b, destination_chain, amount))
        THEN Fail(op, "Panic", args, bridgeVars)
        ELSE /\ lock_records' = (seeds :>
                    [id |-> lock_id, token_mint |-> token_mint, amount |-> amount,
                     destination_chain |-> destination_chain])
                    @@ lock_records
             /\ bridges' = [bridges EXCEPT
                    ![a].nonce = next_nonce(@),
                    ![a].total_locked = Wrap(@ + amount),
                    ![a].supported_chains = AddVolume(b, destination_chain, amount)]
             /\ ret' = Ret(op, "Ok", args)
             /\ UNCHANGED <<mint_records, burn_records>>

burn_tokens(a, amount, destination_chain, token_mint, transfer) ==
    LET b == bridges[a]
        op == "burn_tokens"
        args == NoArgs
        seeds == BurnRecordSeeds(a, b.nonce)
        burn_id == b.nonce
    IN  IF ~b.exists
        THEN Fail(op, "AccountNotInitialized", args, bridgeVars)
        ELSE IF seeds \in DOMAIN burn_records
        THEN Fail(op, "AccountAlreadyInUse", args, bridgeVars)
        ELSE IF b.is_paused
        THEN Fail(op, "BridgePaused", args, bridgeVars)
        ELSE IF ~chain_exists(b, destination_chain)
        THEN Fail(op, "UnsupportedChain", args, bridgeVars)
        ELSE IF build.overflow_checks /\ Overflows(b.nonce + 1)
        THEN Fail(op, "Panic", args, bridgeVars)
        ELSE IF transfer = "rejected"
        THEN Fail(op, "TransferFailed", args, bridgeVars)
        ELSE IF build.overflow_checks /\ VolumeOverflows(b, destination_chain, amount)
        THEN Fail(op, "Panic", args, bridgeVars)
        ELSE /\ burn_records' = (seeds :>
                    [id |-> burn_id, token_mint |-> token_mint, amount |-> amount,
                     destination_chain |-> destination_chain])
                    @@ burn_records
             /\ bridges' = [bridges EXCEPT
                    ![a].nonce = next_nonce(@),
                    ![a].supported_chains = AddVolume(b, destination_chain, amount)]
             /\ ret' = Ret(op, "Ok", args)
             /\ UNCHANGED <<lock_records, mint_records>>

-----------------------------------------------------------------------------
(* The wallet program *)

DAY == 86400
MAX_GUARDIANS == 10

Owners == {"O1"}
NewOwners == {"N1"}

NoRecovery ==
    [some |-> FALSE, new_owner |-> "", guardian_approvals |-> <<>>, initiated_at |-> 0]

\* no account at the wallet's address
NoWallet ==
    [exists |-> FALSE, address |-> <<>>, owner |-> "", recovery_hash |-> "",
     daily_limit |-> 0, daily_spent |-> 0, last_reset |-> 0, nonce |-> 0,
     initialized |-> FALSE, is_frozen |-> FALSE, guardians |-> <<>>,
     pending_recovery |-> NoRecovery]

\* the program-derived address of seeds ["wallet", owner, recovery_hash]
WalletSeeds(owner, recovery_hash) == <<"wallet", owner, recovery_hash>>

\* a membership test that looks at the first element only
Contains_First(seq, x) == Len(seq) > 0 /\ seq[1] = x

Contains(seq, x) == \E i \in 1..Len(seq) : seq[i] = x

\* Vec::iter().position: index of the first occurrence, 0 for None
Position(seq, x) ==
    IF Contains(seq, x)
    THEN CHOOSE i \in 1..Len(seq) : seq[i] = x /\ \A j \in 1..(i - 1) : seq[j] # x
    ELSE 0

\* Vec::remove
RemoveAt(seq, i) ==
    [j \in 1..(Len(seq) - 1) |-> IF j < i THEN seq[j] ELSE seq[j + 1]]

\* Account validation of the instructions whose wallet account carries the
\* seeds constraint only: the address is recomputed from the owner and the
\* recovery hash stored in the account.
WalletConstraint ==
    IF ~wallet.exists THEN "AccountNotInitialized"
    ELSE IF wallet.address # WalletSeeds(wallet.owner, wallet.recovery_hash)
    THEN "ConstraintSeeds"
    ELSE "Ok"

\* Account validation with has_one = owner in addition; when both
\* constraints fail either error may be the one reported.
OwnerConstraint(owner) ==
    IF ~wallet.exists THEN {"AccountNotInitialized"}
    ELSE (IF wallet.address # WalletSeeds(wallet.owner, wallet.recovery_hash)
          THEN {"ConstraintSeeds"} ELSE {})
         \cup (IF owner # wallet.owner THEN {"ConstraintHasOne"} ELSE {})

\* Pubkey::as_ref: the key's 32 bytes, held as one block
as_ref(key) == <<key>>

\* u64::to_le_bytes: eight bytes, least significant first
RECURSIVE LeBytes(_, _)
LeBytes(n, k) == IF k = 0 THEN <<>> ELSE <<n % 256>> \o LeBytes(n \div 256, k - 1)

to_le_bytes(n) == LeBytes(n, 8)

\* hashv: the digest of the slices laid end to end; the digest is injective
\* on the bytes it is fed
RECURSIVE hashv(_)
hashv(slices) == IF slices = <<>> THEN <<>> ELSE Head(slices) \o hashv(Tail(slices))

wallet_calculate_user_op_hash(user_op) ==
    hashv(<<as_ref(user_op.sender),
            to_le_bytes(user_op.nonce),
            user_op.call_data,
            to_le_bytes(user_op.call_gas_limit),
            to_le_bytes(user_op.max_fee_per_gas)>>)

\* the program's signature check
wallet_verify_signature(message, signature, expected_pubkey) == TRUE

\* a nonce check that lets every operation through
nonce_is_current_Any(user_op) == TRUE

\* require!(user_op.nonce == wallet.nonce)
nonce_is_current(user_op) == user_op.nonce = wallet.nonce

initialize_wallet(owner, recovery_hash, daily_limit) ==
    LET op == "initialize_wallet" IN
    IF wallet.exists /\ wallet.address = WalletSeeds(owner, recovery_hash)
    THEN Fail(op, "AccountAlreadyInUse", NoArgs, wallet)
    ELSE /\ wallet' = [exists |-> TRUE,
                       address |-> WalletSeeds(owner, recovery_hash),
                       owner |-> owner,
                       recovery_hash |-> recovery_hash,
                       daily_limit |-> daily_limit,
                       daily_spent |-> 0,
                       last_reset |-> clock,
                       nonce |-> 0,
                       initialized |-> TRUE,
                       is_frozen |-> FALSE,
                       guardians |-> <<>>,
                       pending_recovery |-> NoRecovery]
         /\ ret' = Ret(op, "Ok", NoArgs)

\* the handler with the spending window applied to every operation
execute_user_operation_Windowed(user_op, paymaster_data) ==
    LET op == "execute_user_operation"
        current_time == clock
        reset == current_time - wallet.last_reset >= DAY
        spent == IF reset THEN 0 ELSE wallet.daily_spent
        last == IF reset THEN current_time ELSE wallet.last_reset
        sum == spent + user_op.max_fee_per_gas
        user_op_hash == wallet_calculate_user_op_hash(user_op)
        signature_ok == wallet_verify_signature(user_op_hash, user_op.signer, wallet.owner)
    IN
    IF WalletConstraint # "Ok" THEN Fail(op, WalletConstraint, NoArgs, wallet)
    ELSE IF wallet.is_frozen THEN Fail(op, "WalletFrozen", NoArgs, wallet)
    ELSE IF ~nonce_is_current(user_op) THEN Fail(op, "InvalidNonce", NoArgs, wallet)
    ELSE IF build.overflow_checks /\ Overflows(wallet.nonce + 1)
    THEN Fail(op, "Panic", NoArgs, wallet)
    ELSE IF TRUE
    THEN IF build.overflow_checks /\ Overflows(sum)
         THEN Fail(op, "Panic", NoArgs, wallet)
         ELSE IF ~(Wrap(sum) <= wallet.daily_limit)
         THEN Fail(op, "DailyLimitExceeded", NoArgs, wallet)
         ELSE IF ~signature_ok THEN Fail(op, "InvalidSignature", NoArgs, wallet)
         ELSE /\ wallet' = [wallet EXCEPT !.nonce = Wrap(@ + 1),
                                          !.daily_spent = Wrap(sum),
                                          !.last_reset = last]
              /\ ret' = Ret(op, "Ok", NoArgs)
    ELSE IF ~signature_ok THEN Fail(op, "InvalidSignature", NoArgs, wallet)
    ELSE /\ wallet' = [wallet EXCEPT !.nonce = Wrap(@ + 1)]
         /\ ret' = Ret(op, "Ok", NoArgs)

\* the handler without the check of the daily limit
execute_user_operation_NoLimit(user_op, paymaster_data) ==
    LET op == "execute_user_operation"
        current_time == clock
        reset == current_time - wallet.last_reset >= DAY
        spent == IF reset THEN 0 ELSE wallet.daily_spent
        last == IF reset THEN current_time ELSE wallet.last_reset
        sum == spent + user_op.max_fee_per_gas
        user_op_hash == wallet_calculate_user_op_hash(user_op)
        signature_ok == wallet_verify_signature(user_op_hash, user_op.signer, wallet.owner)
    IN
    IF WalletConstraint # "Ok" THEN Fail(op, WalletConstraint, NoArgs, wallet)
    ELSE IF wallet.is_frozen THEN Fail(op, "WalletFrozen", NoArgs, wallet)
    ELSE IF ~nonce_is_current(user_op) THEN Fail(op, "InvalidNonce", NoArgs, wallet)
    ELSE IF build.overflow_checks /\ Overflows(wallet.nonce + 1)
    THEN Fail(op, "Panic", NoArgs, wallet)
    ELSE IF paymaster_data = "None"
    THEN IF build.overflow_checks /\ Overflows(sum)
         THEN Fail(op, "Panic", NoArgs, wallet)
         ELSE IF FALSE
         THEN Fail(op, "DailyLimitExceeded", NoArgs, wallet)
         ELSE IF ~signature_ok THEN Fail(op, "InvalidSignature", NoArgs, wallet)
         ELSE /\ wallet' = [wallet EXCEPT !.nonce = Wrap(@ + 1),
                                          !.daily_spent = Wrap(sum),
                                          !.last_reset = last]
              /\ ret' = Ret(op, "Ok", NoArgs)
    ELSE IF ~signature_ok THEN Fail(op, "InvalidSignature", NoArgs, wallet)
    ELSE /\ wallet' = [wallet EXCEPT !.nonce = Wrap(@ + 1)]
         /\ ret' = Ret(op, "Ok", NoArgs)

execute_user_operation(user_op, paymaster_data) ==
    LET op == "execute_user_operation"
        current_time == clock
        reset == current_time - wallet.last_reset >= DAY
        spent == IF reset THEN 0 ELSE wallet.daily_spent
        last == IF reset THEN current_time ELSE wallet.last_reset
        sum == spent + user_op.max_fee_per_gas
        user_op_hash == wallet_calculate_user_op_hash(user_op)
        signature_ok == wallet_verify_signature(user_op_hash, user_op.signer, wallet.owner)
    IN
    IF WalletConstraint # "Ok" THEN Fail(op, WalletConstraint, NoArgs, wallet)
    ELSE IF wallet.is_frozen THEN Fail(op, "WalletFrozen", NoArgs, wallet)
    ELSE IF ~nonce_is_current(user_op) THEN Fail(op, "InvalidNonce", NoArgs, wallet)
    ELSE IF build.overflow_checks /\ Overflows(wallet.nonce + 1)
    THEN Fail(op, "Panic", NoArgs, wallet)
    ELSE IF paymaster_data = "None"
    THEN IF build.overflow_checks /\ Overflows(sum)
         THEN Fail(op, "Panic", NoArgs, wallet)
         ELSE IF ~(Wrap(sum) <= wallet.daily_limit)
         THEN Fail(op, "DailyLimitExceeded", NoArgs, wallet)
         ELSE IF ~signature_ok THEN Fail(op, "InvalidSignature", NoArgs, wallet)
         ELSE /\ wallet' = [wallet EXCEPT !.nonce = Wrap(@ + 1),
                                          !.daily_spent = Wrap(sum),
                                          !.last_reset = last]
              /\ ret' = Ret(op, "Ok", NoArgs)
    ELSE IF ~signature_ok THEN Fail(op, "InvalidSignature", NoArgs, wallet)
    ELSE /\ wallet' = [wallet EXCEPT !.nonce = Wrap(@ + 1)]
         /\ ret' = Ret(op, "Ok", NoArgs)

add_guardian(owner, guardian) ==
    LET op == "add_guardian" IN
    IF OwnerConstraint(owner) # {}
    THEN \E e \in OwnerConstraint(owner) : Fail(op, e, NoArgs, wallet)
    ELSE IF ~(Len(wallet.guardians) < MAX_GUARDIANS)
    THEN Fail(op, "TooManyGuardians", NoArgs, wallet)
    ELSE IF Contains(wallet.guardians, guardian)
    THEN Fail(op, "GuardianAlreadyExists", NoArgs, wallet)
    ELSE /\ wallet' = [wallet EXCEPT !.guardians = Append(@, guardian)]
         /\ ret' = Ret(op, "Ok", NoArgs)

remove_guardian(owner, guardian) ==
    LET op == "remove_guardian"
        index == Position(wallet.guardians, guardian)
    IN
    IF OwnerConstraint(owner) # {}
    THEN \E e \in OwnerConstraint(owner) : Fail(op, e, NoArgs, wallet)
    ELSE IF index = 0 THEN Fail(op, "GuardianNotFound", NoArgs, wallet)
    ELSE /\ wallet' = [wallet EXCEPT !.guardians = RemoveAt(@, index)]
         /\ ret' = Ret(op, "Ok", NoArgs)

\* an initiate_recovery that hands the wallet over at once
initiate_recovery_Takeover(guardian, new_owner) ==
    LET op == "initiate_recovery" IN
    IF WalletConstraint # "Ok" THEN Fail(op, WalletConstraint, NoArgs, wallet)
    ELSE IF ~Contains(wallet.guardians, guardian)
    THEN Fail(op, "UnauthorizedGuardian", NoArgs, wallet)
    ELSE IF wallet.pending_recovery.some
    THEN Fail(op, "RecoveryInProgress", NoArgs, wallet)
    ELSE /\ wallet' = [wallet EXCEPT !.owner = new_owner]
         /\ ret' = Ret(op, "Ok", NoArgs)

initiate_recovery(guardian, new_owner) ==
    LET op == "initiate_recovery" IN
    IF WalletConstraint # "Ok" THEN Fail(op, WalletConstraint, NoArgs, wallet)
    ELSE IF ~Contains(wallet.guardians, guardian)
    THEN Fail(op, "UnauthorizedGuardian", NoArgs, wallet)
    ELSE IF wallet.pending_recovery.some
    THEN Fail(op, "RecoveryInProgress", NoArgs, wallet)
    ELSE /\ wallet' = [wallet EXCEPT !.pending_recovery =
                          [some |-> TRUE, new_owner |-> new_owner,
                           guardian_approvals |-> <<guardian>>,
                           initiated_at |-> clock]]
         /\ ret' = Ret(op, "Ok", NoArgs)

\* a quorum of half the guardians
required_approvals_Half(guardians_count) == guardians_count \div 2

\* the approvals a completed recovery needs
required_approvals(guardians_count) == (guardians_count \div 2) + 1

approve_recovery(guardian) ==
    LET op == "approve_recovery"
        guardians_count == Len(wallet.guardians)
        recovery == wallet.pending_recovery
        approvals == Append(recovery.guardian_approvals, guardian)
        current_approvals == Len(approvals)
    IN
    IF WalletConstraint # "Ok" THEN Fail(op, WalletConstraint, NoArgs, wallet)
    ELSE IF ~Contains(wallet.guardians, guardian)
    THEN Fail(op, "UnauthorizedGuardian", NoArgs, wallet)
    ELSE IF ~recovery.some THEN Fail(op, "NoRecoveryInProgress", NoArgs, wallet)
    ELSE IF Contains(recovery.guardian_approvals, guardian)
    THEN Fail(op, "AlreadyApproved", NoArgs, wallet)
    ELSE IF current_approvals >= required_approvals(guardians_count)
    THEN IF build.overflow_checks /\ Overflows(wallet.nonce + 1)
         THEN Fail(op, "Panic", NoArgs, wallet)
         ELSE /\ wallet' = [wallet EXCEPT !.owner = recovery.new_owner,
                                          !.pending_recovery = NoRecovery,
                                          !.nonce = Wrap(@ + 1)]
              /\ ret' = Ret(op, "Ok", NoArgs)
    ELSE /\ wallet' = [wallet EXCEPT !.pending_recovery.guardian_approvals = approvals]
         /\ ret' = Ret(op, "Ok", NoArgs)

freeze_wallet(guardian) ==
    LET op == "freeze_wallet" IN
    IF WalletConstraint # "Ok" THEN Fail(op, WalletConstraint, NoArgs, wallet)
    ELSE IF ~Contains(wallet.guardians, guardian)
    THEN Fail(op, "UnauthorizedGuardian", NoArgs, wallet)
    ELSE /\ wallet' = [wallet EXCEPT !.is_frozen = TRUE]
         /\ ret' = Ret(op, "Ok", NoArgs)

unfreeze_wallet(owner) ==
    LET op == "unfreeze_wallet" IN
    IF OwnerConstraint(owner) # {}
    THEN \E e \in OwnerConstraint(owner) : Fail(op, e, NoArgs, wallet)
    ELSE /\ wallet' = [wallet EXCEPT !.is_frozen = FALSE]
         /\ ret' = Ret(op, "Ok", NoArgs)

-----------------------------------------------------------------------------
(* The entry-point program *)

MIN_STAKE == 1000000000
UNSTAKE_DELAY == 86400

NoEntryPoint ==
    [exists |-> FALSE, authority |-> "", total_operations |-> 0,
     total_paymasters |-> 0, min_stake |-> 0, unstake_delay |-> 0]

\* the same with the two gas fields hashed in the other order
calculate_user_op_hash_Swapped(user_op) ==
    hashv(<<as_ref(user_op.sender),
            to_le_bytes(user_op.nonce),
            user_op.call_data,
            to_le_bytes(user_op.max_fee_per_gas),
            to_le_bytes(user_op.call_gas_limit)>>)

\* hashv over sender, nonce, call_data, call_gas_limit and max_fee_per_gas
calculate_user_op_hash(user_op) ==
    hashv(<<as_ref(user_op.sender),
            to_le_bytes(user_op.nonce),
            user_op.call_data,
            to_le_bytes(user_op.call_gas_limit),
            to_le_bytes(user_op.max_fee_per_gas)>>)

\* Some(first 32 bytes) when the data holds a key, else None
extract_paymaster(paymaster_and_data) ==
    IF Len(paymaster_and_data) >= 1 THEN paymaster_and_data[1] ELSE "None"

\* the same checks with the fee looked at first
validate_user_operation_FeeFirst(user_op) ==
    IF user_op.max_fee_per_gas = 0 THEN [is_err |-> FALSE, value |-> "InsufficientFunds"]
    ELSE IF user_op.call_gas_limit = 0 THEN [is_err |-> FALSE, value |-> "GasLimitExceeded"]
    ELSE [is_err |-> FALSE, value |-> "Valid"]

\* always Ok(result): the function has no Err path
validate_user_operation(user_op) ==
    IF user_op.call_gas_limit = 0 THEN [is_err |-> FALSE, value |-> "GasLimitExceeded"]
    ELSE IF user_op.max_fee_per_gas = 0 THEN [is_err |-> FALSE, value |-> "InsufficientFunds"]
    ELSE [is_err |-> FALSE, value |-> "Valid"]

\* validate_user_operation(user_op)?; propagates an Err only, the
\* ValidationResult is dropped
process_user_operation(user_op, bundler) ==
    IF validate_user_operation(user_op).is_err
    THEN [is_err |-> TRUE, value |-> 0]
    ELSE [is_err |-> FALSE, value |-> user_op.call_gas_limit]

UserOperationEvent(user_op, success, gas_used) ==
    [name |-> "UserOperationEvent",
     user_op_hash |-> calculate_user_op_hash(user_op),
     sender |-> user_op.sender,
     paymaster |-> extract_paymaster(user_op.paymaster_and_data),
     nonce |-> user_op.nonce,
     success |-> success,
     actual_gas_cost |-> gas_used,
     actual_gas_used |-> gas_used]

\* the loop of handle_ops over user_ops[i..]: the counters, the events and
\* whether an addition overflowed
RECURSIVE HandleLoop(_, _, _, _, _, _)
HandleLoop(user_ops, bundler, i, successful_ops, total_gas_used, emitted) ==
    IF i > Len(user_ops)
    THEN [successful_ops |-> successful_ops, total_gas_used |-> total_gas_used,
          events |-> emitted, panic |-> FALSE]
    ELSE LET user_op == user_ops[i]
             result == process_user_operation(user_op, bundler)
         IN IF result.is_err
            THEN HandleLoop(user_ops, bundler, i + 1, successful_ops, total_gas_used,
                            Append(emitted, UserOperationEvent(user_op, FALSE, 0)))
            ELSE IF build.overflow_checks /\ Overflows(total_gas_used + result.value)
            THEN [successful_ops |-> successful_ops, total_gas_used |-> total_gas_used,
                  events |-> emitted, panic |-> TRUE]
            ELSE HandleLoop(user_ops, bundler, i + 1, successful_ops + 1,
                            Wrap(total_gas_used + result.value),
                            Append(emitted, UserOperationEvent(user_op, TRUE, result.value)))

initialize(authority) ==
    LET op == "initialize" IN
    IF entry_point.exists
    THEN /\ ret' = Ret(op, "AccountAlreadyInUse", NoArgs)
         /\ events' = <<>>
         /\ UNCHANGED entry_point
    ELSE /\ entry_point' = [exists |-> TRUE, authority |-> authority,
                            total_operations |-> 0, total_paymasters |-> 0,
                            min_stake |-> MIN_STAKE, unstake_delay |-> UNSTAKE_DELAY]
         /\ events' = <<[name |-> "EntryPointInitialized", authority |-> authority]>>
         /\ ret' = Ret(op, "Ok", NoArgs)

\* the entry-point account is read-only here
simulate_validation(user_op) ==
    LET op == "simulate_validation"
        validation_result == validate_user_operation(user_op)
    IN
    IF ~entry_point.exists \/ validation_result.is_err
    THEN /\ ret' = Ret(op, IF ~entry_point.exists THEN "AccountNotInitialized"
                           ELSE "Err", [user_op |-> user_op])
         /\ events' = <<>>
         /\ UNCHANGED entry_point
    ELSE /\ events' = <<[name |-> "ValidationSimulated",
                         user_op_hash |-> calculate_user_op_hash(user_op),
                         sender |-> user_op.sender,
                         validation_result |-> validation_result.value]>>
         /\ ret' = Ret(op, "Ok", [user_op |-> user_op])
         /\ UNCHANGED entry_point

StakeOwners == {"PM1", "PM2"}

\* last_unlock is history, not account data: the clock at the latest
\* successful unlock_stake of this account, -1 when there was none
NoStake ==
    [exists |-> FALSE, paymaster |-> "", stake |-> 0, unstake_delay |-> 0,
     withdraw_time |-> 0, last_unlock |-> -1]

\* every failure of a stake instruction: nothing but the outcome changes
StakeFail(op, err) ==
    /\ ret' = Ret(op, err, NoArgs)
    /\ events' = <<>>
    /\ UNCHANGED <<entry_point, paymaster_stake>>

\* a stake that a delay below the entry point's default may set up
delay_accepted_Any(unstake_delay) == TRUE

\* require!(unstake_delay >= entry_point.unstake_delay, ...)
delay_accepted(unstake_delay) == unstake_delay >= entry_point.unstake_delay

add_stake(paymaster_key, deposit, unstake_delay) ==
    LET op == "add_stake" IN
    IF paymaster_stake[paymaster_key].exists THEN StakeFail(op, "AccountAlreadyInUse")
    ELSE IF ~entry_point.exists THEN StakeFail(op, "AccountNotInitialized")
    ELSE IF ~delay_accepted(unstake_delay) THEN StakeFail(op, "InvalidUnstakeDelay")
    ELSE /\ paymaster_stake' = [paymaster_stake EXCEPT ![paymaster_key] =
                [exists |-> TRUE, paymaster |-> paymaster_key, stake |-> deposit,
                 unstake_delay |-> unstake_delay, withdraw_time |-> 0,
                 last_unlock |-> -1]]
         /\ events' = <<[name |-> "StakeAdded", paymaster |-> paymaster_key,
                         stake |-> deposit, unstake_delay |-> unstake_delay]>>
         /\ ret' = Ret(op, "Ok", NoArgs)
         /\ UNCHANGED entry_point

unlock_stake(paymaster_key) ==
    LET op == "unlock_stake"
        st == paymaster_stake[paymaster_key]
        current_time == clock
    IN
    IF ~st.exists THEN StakeFail(op, "AccountNotInitialized")
    ELSE IF build.overflow_checks /\ OverflowsI64(current_time + st.unstake_delay)
    THEN StakeFail(op, "Panic")
    ELSE /\ paymaster_stake' = [paymaster_stake EXCEPT
                ![paymaster_key].withdraw_time = WrapI64(current_time + st.unstake_delay),
                ![paymaster_key].last_unlock = current_time]
         /\ events' = <<[name |-> "StakeUnlocked", paymaster |-> st.paymaster,
                         withdraw_time |-> WrapI64(current_time + st.unstake_delay)]>>
         /\ ret' = Ret(op, "Ok", NoArgs)
         /\ UNCHANGED entry_point

\* close = paymaster: a successful withdrawal removes the account
withdraw_stake(paymaster_key, withdraw_address) ==
    LET op == "withdraw_stake"
        st == paymaster_stake[paymaster_key]
        current_time == clock
    IN
    IF ~st.exists THEN StakeFail(op, "AccountNotInitialized")
    ELSE IF ~(st.withdraw_time > 0 /\ current_time >= st.withdraw_time)
    THEN StakeFail(op, "WithdrawTimeNotReached")
    ELSE /\ paymaster_stake' = [paymaster_stake EXCEPT ![paymaster_key] = NoStake]
         /\ events' = <<[name |-> "StakeWithdrawn", paymaster |-> st.paymaster,
                         withdraw_address |-> withdraw_address, amount |-> st.stake]>>
         /\ ret' = Ret(op, "Ok", NoArgs)
         /\ UNCHANGED entry_point

handle_ops(user_ops, beneficiary, bundler) ==
    LET op == "handle_ops"
        loop == HandleLoop(user_ops, bundler, 1, 0, 0, <<>>)
        total == entry_point.total_operations + Len(user_ops)
    IN
    IF ~entry_point.exists
    THEN /\ ret' = Ret(op, "AccountNotInitialized", NoArgs)
         /\ events' = <<>>
         /\ UNCHANGED entry_point
    ELSE IF loop.panic \/ (build.overflow_checks /\ Overflows(total))
    THEN /\ ret' = Ret(op, "Panic", NoArgs)
         /\ events' = <<>>
         /\ UNCHANGED entry_point
    ELSE /\ entry_point' = [entry_point EXCEPT !.total_operations = Wrap(total)]
         /\ events' = Append(loop.events,
                             [name |-> "BatchProcessed",
                              beneficiary |-> beneficiary,
                              total_operations |-> Len(user_ops),
                              successful_operations |-> loop.successful_ops,
                              total_gas_used |-> loop.total_gas_used])
         /\ ret' = Ret(op, "Ok", NoArgs)

-----------------------------------------------------------------------------
(* The paymaster program *)

MAX_TOKENS == 20


NoPaymaster ==
    [exists |-> FALSE, owner |-> "", entry_point |-> "",
     config |-> [max_cost_per_operation |-> 0, allowed_users |-> <<>>],
     total_sponsored |-> 0, total_operations |-> 0, is_active |-> FALSE,
     supported_tokens |-> <<>>]

\* PaymentMethod
Sponsored == [kind |-> "Sponsored"]

TokenPayment(token_mint, max_token_amount) ==
    [kind |-> "TokenPayment", token_mint |-> token_mint,
     max_token_amount |-> max_token_amount]

\* iter().position of the first token with the mint, 0 for None
find_token(pm, token_mint) ==
    IF \E i \in 1..Len(pm.supported_tokens) : pm.supported_tokens[i].mint = token_mint
    THEN CHOOSE i \in 1..Len(pm.supported_tokens) :
            /\ pm.supported_tokens[i].mint = token_mint
            /\ \A j \in 1..(i - 1) : pm.supported_tokens[j].mint # token_mint
    ELSE 0

saturating_sub(a, b) == IF a >= b THEN a - b ELSE 0

\* result of a post-op helper: the paymaster it leaves, whether it
\* panicked, and the refund it computed (-1: none)
Handled(pm, panic, refund) == [paymaster |-> pm, panic |-> panic, refund |-> refund]

handle_successful_operation(pm, context, actual_gas_cost) ==
    IF context.payment_method.kind = "Sponsored"
    THEN IF build.overflow_checks /\ Overflows(pm.total_sponsored + actual_gas_cost)
         THEN Handled(pm, TRUE, -1)
         ELSE Handled([pm EXCEPT !.total_sponsored = Wrap(@ + actual_gas_cost)], FALSE, -1)
    ELSE LET i == find_token(pm, context.payment_method.token_mint) IN
         IF context.token_account = "None" \/ i = 0
         THEN Handled(pm, FALSE, -1)
         ELSE IF build.overflow_checks
                 /\ Overflows(pm.supported_tokens[i].total_collected + context.pre_charge)
         THEN Handled(pm, TRUE, -1)
         ELSE Handled([pm EXCEPT !.supported_tokens[i].total_collected =
                                     Wrap(@ + context.pre_charge)], FALSE, -1)

handle_reverted_operation(pm, context, actual_gas_cost) ==
    IF context.payment_method.kind = "Sponsored"
    THEN IF build.overflow_checks /\ Overflows(pm.total_sponsored + actual_gas_cost)
         THEN Handled(pm, TRUE, -1)
         ELSE Handled([pm EXCEPT !.total_sponsored = Wrap(@ + actual_gas_cost)], FALSE, -1)
    ELSE LET i == find_token(pm, context.payment_method.token_mint) IN
         IF i = 0 THEN Handled(pm, FALSE, -1)
         ELSE LET product == actual_gas_cost * pm.supported_tokens[i].rate_per_lamport
                  tokens_for_gas == Wrap(product)
                  collected == pm.supported_tokens[i].total_collected + tokens_for_gas
              IN IF build.overflow_checks /\ (Overflows(product) \/ Overflows(collected))
                 THEN Handled(pm, TRUE, -1)
                 ELSE Handled([pm EXCEPT !.supported_tokens[i].total_collected =
                                             Wrap(collected)],
                              FALSE, saturating_sub(context.pre_charge, tokens_for_gas))

initialize_paymaster(owner, ep, config) ==
    LET op == "initialize_paymaster" IN
    IF paymaster.exists THEN Fail(op, "AccountAlreadyInUse", NoArgs, paymaster)
    ELSE /\ paymaster' = [exists |-> TRUE, owner |-> owner, entry_point |-> ep,
                          config |-> config, total_sponsored |-> 0,
                          total_operations |-> 0, is_active |-> TRUE,
                          supported_tokens |-> <<>>]
         /\ ret' = Ret(op, "Ok", NoArgs)

add_supported_token(owner, token_mint, rate_per_lamport, oracle) ==
    LET op == "add_supported_token" IN
    IF ~paymaster.exists THEN Fail(op, "AccountNotInitialized", NoArgs, paymaster)
    ELSE IF owner # paymaster.owner THEN Fail(op, "ConstraintHasOne", NoArgs, paymaster)
    ELSE IF ~(Len(paymaster.supported_tokens) < MAX_TOKENS)
    THEN Fail(op, "TooManyTokens", NoArgs, paymaster)
    ELSE /\ paymaster' = [paymaster EXCEPT !.supported_tokens =
                             Append(@, [mint |-> token_mint,
                                        rate_per_lamport |-> rate_per_lamport,
                                        oracle |-> oracle,
                                        is_active |-> TRUE,
                                        total_collected |-> 0])]
         /\ ret' = Ret(op, "Ok", NoArgs)

post_op(mode, context, actual_gas_cost) ==
    LET op == "post_op"
        handled == IF mode = "OpSucceeded"
                   THEN handle_successful_operation(paymaster, context, actual_gas_cost)
                   ELSE IF mode = "OpReverted"
                   THEN handle_reverted_operation(paymaster, context, actual_gas_cost)
                   ELSE Handled(paymaster, FALSE, -1)
    IN
    IF ~paymaster.exists THEN Fail(op, "AccountNotInitialized", NoArgs, paymaster)
    ELSE IF handled.panic
            \/ (build.overflow_checks /\ Overflows(paymaster.total_operations + 1))
    THEN Fail(op, "Panic", NoArgs, paymaster)
    ELSE /\ paymaster' = [handled.paymaster EXCEPT !.total_operations = Wrap(@ + 1)]
         /\ ret' = Ret(op, "Ok", [refund |-> handled.refund])

set_active(owner, is_active) ==
    LET op == "set_active" IN
    IF ~paymaster.exists THEN Fail(op, "AccountNotInitialized", NoArgs, paymaster)
    ELSE IF owner # paymaster.owner THEN Fail(op, "ConstraintHasOne", NoArgs, paymaster)
    ELSE /\ paymaster' = [paymaster EXCEPT !.is_active = is_active]
         /\ ret' = Ret(op, "Ok", NoArgs)

\* u64::from_le_bytes
RECURSIVE from_le_bytes(_)
from_le_bytes(bytes) ==
    IF bytes = <<>> THEN 0 ELSE Head(bytes) + 256 * from_le_bytes(Tail(bytes))

\* data[1..33] is the mint, data[33..41] the amount
parse_paymaster_data(data) ==
    IF data = <<>> THEN [is_err |-> FALSE, value |-> Sponsored]
    ELSE IF data[1] = 0 THEN [is_err |-> FALSE, value |-> Sponsored]
    ELSE IF data[1] = 1
    THEN IF Len(data) < 41
         THEN [is_err |-> TRUE, err |-> "InvalidPaymasterData"]
         ELSE [is_err |-> FALSE,
               value |-> TokenPayment(SubSeq(data, 2, 33),
                                      from_le_bytes(SubSeq(data, 34, 41)))]
    ELSE [is_err |-> TRUE, err |-> "InvalidPaymasterData"]

\* a validation that never looks at the cost
validate_sponsored_payment_NoCap(pm, user, max_cost) ==
    IF pm.config.allowed_users # <<>> /\ ~Contains(pm.config.allowed_users, user)
    THEN [is_err |-> TRUE, err |-> "UserNotAllowed"]
    ELSE [is_err |-> FALSE,
          value |-> [payment_method |-> Sponsored, user |-> user,
                     pre_charge |-> max_cost, token_account |-> "None"]]

\* the result carries the PaymentContext
validate_sponsored_payment(pm, user, max_cost) ==
    IF pm.config.allowed_users # <<>> /\ ~Contains(pm.config.allowed_users, user)
    THEN [is_err |-> TRUE, err |-> "UserNotAllowed"]
    ELSE IF ~(max_cost <= pm.config.max_cost_per_operation)
    THEN [is_err |-> TRUE, err |-> "CostTooHigh"]
    ELSE [is_err |-> FALSE,
          value |-> [payment_method |-> Sponsored, user |-> user,
                     pre_charge |-> max_cost, token_account |-> "None"]]

\* position of the first active token with the mint, 0 for None
find_active_token(pm, token_mint) ==
    LET hits == {i \in 1..Len(pm.supported_tokens) :
                    /\ pm.supported_tokens[i].mint = token_mint
                    /\ pm.supported_tokens[i].is_active}
    IN  IF hits = {} THEN 0 ELSE CHOOSE i \in hits : \A j \in hits : i <= j

validate_token_payment(pm, remaining_accounts, token_mint, max_token_amount, max_cost) ==
    LET i == find_active_token(pm, token_mint) IN
    IF i = 0 THEN [is_err |-> TRUE, err |-> "TokenNotSupported"]
    ELSE LET product == max_cost * pm.supported_tokens[i].rate_per_lamport
             required_tokens == Wrap(product)
         IN  IF build.overflow_checks /\ Overflows(product)
             THEN [is_err |-> TRUE, err |-> "Panic"]
             ELSE IF ~(max_token_amount >= required_tokens)
             THEN [is_err |-> TRUE, err |-> "InsufficientTokenBalance"]
             ELSE IF Len(remaining_accounts) < 2
             THEN [is_err |-> TRUE, err |-> "Panic"]
             ELSE [is_err |-> FALSE,
                   value |-> [payment_method |-> TokenPayment(token_mint, max_token_amount),
                              user |-> remaining_accounts[1],
                              pre_charge |-> required_tokens,
                              token_account |-> remaining_accounts[2]]]

\* the paymaster account is read-only here; ret carries the context returned
validate_paymaster_user_op(user_account, paymaster_data, remaining_accounts, max_cost) ==
    LET op == "validate_paymaster_user_op"
        payment_method == parse_paymaster_data(paymaster_data)
        validation_result ==
            IF payment_method.value.kind = "Sponsored"
            THEN validate_sponsored_payment(paymaster, user_account, max_cost)
            ELSE validate_token_payment(paymaster, remaining_accounts,
                                        payment_method.value.token_mint,
                                        payment_method.value.max_token_amount,
                                        max_cost)
    IN
    IF ~paymaster.exists THEN Fail(op, "AccountNotInitialized", NoArgs, paymaster)
    ELSE IF ~paymaster.is_active THEN Fail(op, "PaymasterInactive", NoArgs, paymaster)
    ELSE IF payment_method.is_err THEN Fail(op, payment_method.err, NoArgs, paymaster)
    ELSE IF validation_result.is_err THEN Fail(op, validation_result.err, NoArgs, paymaster)
    ELSE /\ ret' = Ret(op, "Ok", [context |-> validation_result.value])
         /\ UNCHANGED paymaster

-----------------------------------------------------------------------------
(* Initial states *)

InitBuild == build \in {[overflow_checks |-> c] : c \in BOOLEAN}

InitBridge ==
    /\ bridges = [a \in BothAuthorities |-> NoBridge]
    /\ lock_records = <<>>
    /\ mint_records = <<>>
    /\ burn_records = <<>>

InitWallet == wallet = NoWallet
InitPaymaster == paymaster = NoPaymaster
InitEntryPoint ==
    /\ entry_point = NoEntryPoint
    /\ paymaster_stake = [p \in StakeOwners |-> NoStake]
    /\ events = <<>>

Init ==
    /\ InitBuild
    /\ clock = 0
    /\ InitBridge
    /\ InitWallet
    /\ InitPaymaster
    /\ InitEntryPoint
    /\ ret = [op |-> "none", err |-> "Ok"] @@ NoArgs

-----------------------------------------------------------------------------
(* The bridge program's instructions, with the inputs the model draws *)

otherVarsB == <<build, clock, wallet, paymaster, entry_point, paymaster_stake, events>>

InitializeBridge ==
    \E a \in Authorities, vs \in ValidatorLists, t \in Thresholds :
        initialize_bridge(a, vs, t) /\ UNCHANGED otherVarsB

UpdateValidators ==
    \E a \in Authorities, c \in Authorities \cup {"X"},
       vs \in ValidatorLists, t \in Thresholds :
        update_validators(a, c, vs, t) /\ UNCHANGED otherVarsB

SetPaused ==
    \E a \in Authorities, c \in Authorities \cup {"X"}, p \in BOOLEAN :
        set_paused(a, c, p) /\ UNCHANGED otherVarsB

\* registers a chain that is not registered yet
AddNewChain ==
    \E a \in Authorities, c \in Authorities \cup {"X"}, id \in {1} :
        /\ find_chain(bridges[a], id) = 0
        /\ add_supported_chain(a, c, id)
        /\ UNCHANGED otherVarsB

MintTokens ==
    \E a \in Authorities, l \in {0, 1}, sc \in ChainIds, m \in {"M1"},
       amt \in {1, U64_MAX}, t \in Transfers :
        \E sigs \in SigLists(message_hash(l, sc, m, amt)) :
            mint_tokens(a, l, sc, m, amt, sigs, t) /\ UNCHANGED otherVarsB

LockTokens ==
    \E a \in Authorities, amt \in LockAmounts, dc \in ChainIds, m \in TokenMints,
       t \in Transfers :
        /\ bridges[a].nonce < MaxBridgeNonce
        /\ lock_tokens(a, amt, dc, m, t)
        /\ UNCHANGED otherVarsB

BurnTokens ==
    \E a \in Authorities, amt \in LockAmounts, dc \in ChainIds, t \in Transfers :
        /\ bridges[a].nonce < MaxBridgeNonce
        /\ burn_tokens(a, amt, dc, "M1", t)
        /\ UNCHANGED otherVarsB

NextBridge ==
    \/ InitializeBridge
    \/ UpdateValidators
    \/ SetPaused
    \/ AddNewChain
    \/ MintTokens
    \/ LockTokens
    \/ BurnTokens

SpecBridge == Init /\ [][NextBridge]_vars

\* locks and burns interleaved on one bridge, several records long
LockNext ==
    \E a \in Authorities, amt \in LockAmounts, dc \in ChainIds, m \in TokenMints,
       t \in Transfers :
        /\ bridges[a].nonce < MaxLedgerNonce
        /\ lock_tokens(a, amt, dc, m, t)
        /\ UNCHANGED otherVarsB

BurnNext ==
    \E a \in Authorities, amt \in LockAmounts, dc \in ChainIds, t \in Transfers :
        /\ bridges[a].nonce < MaxLedgerNonce
        /\ burn_tokens(a, amt, dc, "M1", t)
        /\ UNCHANGED otherVarsB

\* registers any chain id, registered already or not
AddChain ==
    \E a \in Authorities, c \in Authorities \cup {"X"}, id \in ChainIds :
        /\ Len(bridges[a].supported_chains) < MaxChains
        /\ add_supported_chain(a, c, id)
        /\ UNCHANGED otherVarsB

\* mints for lock ids that agree on their four low-order bytes
MintWide ==
    \E a \in Authorities, l \in {1, 1 + HalfWord}, sc \in ChainIds \cup {1 + HalfWord} :
        \E sigs \in SigLists(message_hash(l, sc, "M1", 1)) :
            mint_tokens(a, l, sc, "M1", 1, sigs, "ok") /\ UNCHANGED otherVarsB

NextChains ==
    \/ InitializeBridge
    \/ SetPaused
    \/ AddChain
    \/ MintWide

SpecChains == Init /\ [][NextChains]_vars

\* locks and burns of any amount, zero included
LockAnyAmount ==
    \E a \in Authorities, amt \in {0, 1}, dc \in ChainIds, m \in TokenMints,
       t \in Transfers :
        /\ bridges[a].nonce < MaxBridgeNonce
        /\ lock_tokens(a, amt, dc, m, t)
        /\ UNCHANGED otherVarsB

BurnAnyAmount ==
    \E a \in Authorities, amt \in {0, 1}, dc \in ChainIds, t \in Transfers :
        /\ bridges[a].nonce < MaxBridgeNonce
        /\ burn_tokens(a, amt, dc, "M1", t)
        /\ UNCHANGED otherVarsB

NextCustody ==
    \/ InitializeBridge
    \/ SetPaused
    \/ AddNewChain
    \/ LockAnyAmount
    \/ BurnAnyAmount

\* custody records of one bridge
SpecCustody == Init /\ [][NextCustody]_vars

\* the same instructions on either of two bridges
InitializeEither ==
    \E a \in BothAuthorities, t \in {1, 2} :
        initialize_bridge(a, <<"V1", "V2", "V3">>, t) /\ UNCHANGED otherVarsB

AddChainToEither ==
    \E a \in BothAuthorities :
        /\ find_chain(bridges[a], 1) = 0
        /\ add_supported_chain(a, a, 1)
        /\ UNCHANGED otherVarsB

MintOnEither ==
    \E a \in BothAuthorities, l \in {0, 1} :
        \E sigs \in SigLists(message_hash(l, 1, "M1", 1)) :
            mint_tokens(a, l, 1, "M1", 1, sigs, "ok") /\ UNCHANGED otherVarsB

NextTwoBridges ==
    \/ InitializeEither
    \/ AddChainToEither
    \/ MintOnEither

\* two bridges under different authorities
SpecTwoBridges == Init /\ [][NextTwoBridges]_vars

NextGate ==
    \/ InitializeBridge
    \/ SetPaused
    \/ AddNewChain
    \/ LockTokens
    \/ BurnTokens
    \/ MintWide

\* locks, burns and mints of one bridge with a single registered chain
SpecGate == Init /\ [][NextGate]_vars

NextLedger ==
    \/ InitializeBridge
    \/ SetPaused
    \/ AddNewChain
    \/ LockNext
    \/ BurnNext

SpecLedger == Init /\ [][NextLedger]_vars

-----------------------------------------------------------------------------
(* The wallet program's instructions, with the inputs the model draws *)

otherVarsW == <<build, clock, bridges, lock_records, mint_records, burn_records,
                paymaster, entry_point, paymaster_stake, events>>

GuardianKeys == {"G1", "G2", "G3", "G4"}
FewGuardianKeys == {"G1", "G2"}

UserOp(nonce, max_fee_per_gas, signer) ==
    [sender |-> "W", nonce |-> nonce, call_data |-> <<>>, call_gas_limit |-> 1,
     max_fee_per_gas |-> max_fee_per_gas, signer |-> signer]

\* user operations of the wallet and daily-limit specifications
WalletUserOps == {UserOp(n, 20, s) : n \in 0..MaxNonce, s \in {"O1", "X"}}
DailyUserOps ==
    {UserOp(n, f, "O1") : n \in 0..MaxNonce, f \in {20, 90, U64_MAX - 80}}

InitializeWallet ==
    \E o \in Owners, h \in {"H1"}, dl \in {100} :
        initialize_wallet(o, h, dl) /\ UNCHANGED otherVarsW

\* time passes
Tick ==
    /\ \E t \in {1, DAY, DAY + 1, 2 * DAY} : t > clock /\ clock' = t
    /\ UNCHANGED <<build, bridgeVars, wallet, paymaster, entry_point, paymaster_stake, events, ret>>

ExecuteUserOperation ==
    \E user_op \in WalletUserOps, pd \in {"None", "Some"} :
        /\ wallet.nonce < MaxNonce
        /\ execute_user_operation(user_op, pd)
        /\ UNCHANGED otherVarsW

\* operations carrying the wallet's current nonce, with any fee
ExecuteWithFee ==
    \E user_op \in DailyUserOps, pd \in {"None", "Some"} :
        /\ wallet.nonce < MaxNonce
        /\ user_op.nonce = wallet.nonce
        /\ execute_user_operation(user_op, pd)
        /\ UNCHANGED otherVarsW

AddGuardian ==
    \E o \in Owners \cup {"X"}, g \in GuardianKeys :
        add_guardian(o, g) /\ UNCHANGED otherVarsW

RemoveGuardian ==
    \E o \in Owners \cup {"X"}, g \in GuardianKeys :
        remove_guardian(o, g) /\ UNCHANGED otherVarsW

InitiateRecovery ==
    \E g \in GuardianKeys \cup {"X"}, n \in NewOwners :
        initiate_recovery(g, n) /\ UNCHANGED otherVarsW

ApproveRecovery ==
    \E g \in GuardianKeys \cup {"X"} :
        approve_recovery(g) /\ UNCHANGED otherVarsW

\* the same instructions on a wallet with at most two guardians
AddFewGuardians ==
    \E o \in Owners \cup NewOwners \cup {"X"}, g \in FewGuardianKeys :
        add_guardian(o, g) /\ UNCHANGED otherVarsW

RemoveFewGuardians ==
    \E o \in Owners \cup NewOwners \cup {"X"}, g \in FewGuardianKeys :
        remove_guardian(o, g) /\ UNCHANGED otherVarsW

InitiateRecoveryByFew ==
    \E g \in FewGuardianKeys \cup {"X"}, n \in NewOwners :
        initiate_recovery(g, n) /\ UNCHANGED otherVarsW

ApproveRecoveryByFew ==
    \E g \in FewGuardianKeys \cup {"X"} :
        approve_recovery(g) /\ UNCHANGED otherVarsW

FreezeWallet ==
    \E g \in FewGuardianKeys \cup Owners \cup {"X"} :
        freeze_wallet(g) /\ UNCHANGED otherVarsW

UnfreezeWallet ==
    \E o \in Owners \cup NewOwners \cup FewGuardianKeys \cup {"X"} :
        unfreeze_wallet(o) /\ UNCHANGED otherVarsW

NextWallet ==
    \/ InitializeWallet
    \/ ExecuteUserOperation
    \/ AddFewGuardians
    \/ RemoveFewGuardians
    \/ InitiateRecoveryByFew
    \/ ApproveRecoveryByFew
    \/ FreezeWallet
    \/ UnfreezeWallet

\* the wallet with up to two guardians: operations, freezing and recovery
SpecWallet == Init /\ [][NextWallet]_vars

\* further guardian keys, registered in this order and removed in the reverse
\* order, so that the list can be filled to its capacity
MoreGuardianKeys == <<"G3", "G4", "G5", "G6", "G7", "G8", "G9", "G10", "G11">>

HeldMoreKeys ==
    Cardinality({i \in 1..Len(MoreGuardianKeys) :
                    \E j \in 1..Len(wallet.guardians) :
                        wallet.guardians[j] = MoreGuardianKeys[i]})

AddMoreGuardians ==
    \E o \in Owners \cup {"X"}, i \in 1..Len(MoreGuardianKeys) :
        /\ i <= HeldMoreKeys + 1
        /\ add_guardian(o, MoreGuardianKeys[i])
        /\ UNCHANGED otherVarsW

RemoveMoreGuardians ==
    \E o \in Owners \cup {"X"}, i \in 1..Len(MoreGuardianKeys) :
        /\ i \in {HeldMoreKeys, HeldMoreKeys + 1}
        /\ remove_guardian(o, MoreGuardianKeys[i])
        /\ UNCHANGED otherVarsW

NextGuardians ==
    \/ InitializeWallet
    \/ AddFewGuardians
    \/ RemoveFewGuardians
    \/ AddMoreGuardians
    \/ RemoveMoreGuardians

\* guardian management of one wallet, up to the capacity of the list
SpecGuardians == Init /\ [][NextGuardians]_vars

NextRecoveryLive ==
    \/ InitializeWallet
    \/ AddFewGuardians
    \/ InitiateRecoveryByFew
    \/ ApproveRecoveryByFew

\* recovery on a wallet whose guardians keep calling approve_recovery
SpecRecoveryLive ==
    /\ Init
    /\ [][NextRecoveryLive]_vars
    /\ \A g \in FewGuardianKeys :
          WF_vars(/\ Contains(wallet.guardians, g)
                  /\ approve_recovery(g)
                  /\ UNCHANGED otherVarsW)

NextRecovery ==
    \/ InitializeWallet
    \/ AddGuardian
    \/ RemoveGuardian
    \/ InitiateRecovery
    \/ ApproveRecovery

\* guardian management and social recovery with up to four guardians
SpecRecovery == Init /\ [][NextRecovery]_vars

NextDaily ==
    \/ InitializeWallet
    \/ Tick
    \/ ExecuteWithFee

\* operations of one wallet over time
SpecDaily == Init /\ [][NextDaily]_vars

-----------------------------------------------------------------------------
(* The entry-point program's instructions, with the inputs the model draws *)

EPUserOp(call_gas_limit, max_fee_per_gas) ==
    [sender |-> "W", nonce |-> 0, call_data |-> <<>>,
     call_gas_limit |-> call_gas_limit, max_fee_per_gas |-> max_fee_per_gas,
     paymaster_and_data |-> <<>>]


Batches ==
    LET ops == {EPUserOp(0, 1), EPUserOp(1, 1), EPUserOp(U64_MAX, 1), EPUserOp(1, 0)}
    IN  UNION {[1..n -> ops] : n \in 0..MaxBatch}

Initialize ==
    /\ initialize("EA")
    /\ UNCHANGED <<build, clock, bridgeVars, wallet, paymaster, paymaster_stake>>

HandleOps ==
    \E user_ops \in Batches :
        /\ entry_point.total_operations + Len(user_ops) <= MaxTotalOps
        /\ handle_ops(user_ops, "BEN", "B1")
        /\ UNCHANGED <<build, clock, bridgeVars, wallet, paymaster, paymaster_stake>>

NextEntryPoint ==
    \/ Initialize
    \/ HandleOps

SpecEntryPoint == Init /\ [][NextEntryPoint]_vars

-----------------------------------------------------------------------------
(* The two programs' hash helpers applied to complete user operations *)

\* complete user operations: the fields the hash reads, and four settings of
\* the fields it does not read
HashUserOps ==
    LET HashedFields ==
            [sender : {"W", "W2"}, nonce : {0, 1}, call_data : {<<>>, <<1>>},
             call_gas_limit : {1, 256}, max_fee_per_gas : {1, U64_MAX}]
        OtherFields ==
    { [init_code |-> <<>>, verification_gas_limit |-> 0, pre_verification_gas |-> 0,
       max_priority_fee_per_gas |-> 0, paymaster_and_data |-> <<>>, signature |-> "S1"],
      [init_code |-> <<7>>, verification_gas_limit |-> 1, pre_verification_gas |-> 1,
       max_priority_fee_per_gas |-> 1, paymaster_and_data |-> <<"P1">>, signature |-> "S2"],
      [init_code |-> <<7>>, verification_gas_limit |-> 0, pre_verification_gas |-> 1,
       max_priority_fee_per_gas |-> 0, paymaster_and_data |-> <<"P1">>, signature |-> "S1"],
      [init_code |-> <<>>, verification_gas_limit |-> 1, pre_verification_gas |-> 0,
       max_priority_fee_per_gas |-> 1, paymaster_and_data |-> <<>>, signature |-> "S2"] }
    IN  {h @@ o : h \in HashedFields, o \in OtherFields}

WalletHash ==
    \E user_op \in HashUserOps :
        /\ ret' = Ret("wallet.calculate_user_op_hash", "Ok",
                      [user_op |-> user_op,
                       hash |-> wallet_calculate_user_op_hash(user_op)])
        /\ UNCHANGED <<build, clock, bridgeVars, wallet, paymaster, entry_point,
                       paymaster_stake, events>>

EntryPointHash ==
    \E user_op \in HashUserOps :
        /\ ret' = Ret("entry_point.calculate_user_op_hash", "Ok",
                      [user_op |-> user_op,
                       hash |-> calculate_user_op_hash(user_op)])
        /\ UNCHANGED <<build, clock, bridgeVars, wallet, paymaster, entry_point,
                       paymaster_stake, events>>

NextHash ==
    \/ WalletHash
    \/ EntryPointHash

SpecHash == Init /\ [][NextHash]_vars

\* validation simulated on complete user operations, with and without gas
\* limit and fee
SimulateValidation ==
    \E u \in HashUserOps, g \in {0, 1, 256}, f \in {0, 1, U64_MAX} :
        /\ simulate_validation([u EXCEPT !.call_gas_limit = g, !.max_fee_per_gas = f])
        /\ UNCHANGED <<build, clock, bridgeVars, wallet, paymaster, paymaster_stake>>

NextSimulate ==
    \/ Initialize
    \/ SimulateValidation

SpecSimulate == Init /\ [][NextSimulate]_vars

\* stakes added, unlocked and withdrawn while the clock advances

AddStake ==
    \E p \in StakeOwners, d \in {UNSTAKE_DELAY - 1, UNSTAKE_DELAY, I64_MAX} :
        /\ add_stake(p, 1, d)
        /\ UNCHANGED <<build, clock, bridgeVars, wallet, paymaster>>

UnlockStake ==
    \E p \in StakeOwners :
        /\ unlock_stake(p)
        /\ UNCHANGED <<build, clock, bridgeVars, wallet, paymaster>>

WithdrawStake ==
    \E p \in StakeOwners :
        /\ withdraw_stake(p, "WA")
        /\ UNCHANGED <<build, clock, bridgeVars, wallet, paymaster>>

NextStake ==
    \/ Initialize
    \/ Tick
    \/ AddStake
    \/ UnlockStake
    \/ WithdrawStake

SpecStake == Init /\ [][NextStake]_vars

-----------------------------------------------------------------------------
(* The paymaster program's instructions, with the inputs the model draws *)

otherVarsP == <<build, clock, bridgeVars, wallet, entry_point, paymaster_stake, events>>

ActualGasCosts == {60, U64_MAX}

PaymentContexts ==
    {[payment_method |-> Sponsored, user |-> "U1", pre_charge |-> 100,
      token_account |-> "None"]}
    \cup {[payment_method |-> TokenPayment(m, 500), user |-> "U1", pre_charge |-> 500,
           token_account |-> ta] : m \in {"T1", "T2"}, ta \in {"None", "TA1"}}

InitializePaymaster ==
    \E c \in {[max_cost_per_operation |-> 100, allowed_users |-> au] :
                au \in {<<>>, <<"U1">>}} :
        initialize_paymaster("P1", "EP", c) /\ UNCHANGED otherVarsP

AddSupportedToken ==
    \E o \in {"P1", "X"}, r \in {5} :
        /\ Len(paymaster.supported_tokens) < MaxTokens
        /\ add_supported_token(o, "T1", r, "None")
        /\ UNCHANGED otherVarsP

PostOp ==
    \E mode \in {"OpSucceeded", "OpReverted", "PostOpReverted"},
       context \in PaymentContexts, cost \in ActualGasCosts :
        /\ paymaster.total_operations < MaxPostOps
        /\ post_op(mode, context, cost)
        /\ UNCHANGED otherVarsP

NextPaymaster ==
    \/ InitializePaymaster
    \/ AddSupportedToken
    \/ PostOp

SpecPaymaster == Init /\ [][NextPaymaster]_vars

\* validation: the paymaster switched on and off, tokens priced low and high,
\* and paymaster data of every shape
MintKey(b) == [i \in 1..32 |-> b]

PaymasterDataBuffers ==
    LET full(tag, m, amt) == <<tag>> \o MintKey(m) \o to_le_bytes(amt)
    IN  {<<>>, <<0>>, <<0, 9>>, <<1>>, <<2>>}
        \cup {full(1, m, amt) : m \in {1, 2}, amt \in {299, 300, U64_MAX}}
        \cup {full(1, 1, 300) \o <<9>>, SubSeq(full(1, 1, 300), 1, 40), full(2, 1, 300)}

MaxCosts == {60, 100, 200}

AddPricedToken ==
    \E r \in {5, U64_MAX} :
        /\ Len(paymaster.supported_tokens) < MaxTokens
        /\ add_supported_token("P1", MintKey(1), r, "None")
        /\ UNCHANGED otherVarsP

SetActive ==
    \E o \in {"P1", "X"}, is_active \in BOOLEAN :
        set_active(o, is_active) /\ UNCHANGED otherVarsP

ValidatePaymasterUserOp ==
    \E user \in {"U1", "U2"}, data \in PaymasterDataBuffers,
       remaining \in {<<>>, <<"U1", "TA1">>}, max_cost \in MaxCosts :
        validate_paymaster_user_op(user, data, remaining, max_cost)
        /\ UNCHANGED otherVarsP

ParsePaymasterData ==
    \E data \in PaymasterDataBuffers :
        LET r == parse_paymaster_data(data) IN
        /\ ret' = Ret("parse_paymaster_data", IF r.is_err THEN r.err ELSE "Ok",
                      [data |-> data, result |-> r])
        /\ UNCHANGED <<paymaster, otherVarsP>>

NextValidate ==
    \/ InitializePaymaster
    \/ AddPricedToken
    \/ SetActive
    \/ ValidatePaymasterUserOp
    \/ ParsePaymasterData

SpecValidate == Init /\ [][NextValidate]_vars

-----------------------------------------------------------------------------
(* Properties of the bridge program *)

\* the record of the pair (lock_id, source_chain) exists and is minted
PairMinted(lock_id, source_chain) ==
    \E k \in DOMAIN mint_records :
        /\ mint_records[k].lock_id = lock_id
        /\ mint_records[k].source_chain = source_chain
        /\ mint_records[k].is_minted

\* C1: double-mint freedom.  Once a pair (lock_id, source_chain) has been
\* minted, every later mint_tokens for that pair fails with AlreadyMinted and
\* changes nothing, whatever happened in between; no record's is_minted goes
\* back to false; a successful mint raises total_minted by exactly its amount
\* (in u64 arithmetic) and creates exactly the record of its pair.
C1_DoubleMintFreedom ==
    [][ /\ \A k \in DOMAIN mint_records :
             k \in DOMAIN mint_records' /\ mint_records'[k].is_minted
        /\ ret'.op = "mint_tokens" /\ PairMinted(ret'.lock_id, ret'.source_chain)
             => ret'.err = "AlreadyMinted" /\ bridges' = bridges
                /\ mint_records' = mint_records
        /\ ret'.op = "mint_tokens" /\ ret'.err = "Ok"
             => \E k \in DOMAIN mint_records' \ DOMAIN mint_records :
                  /\ DOMAIN mint_records' = DOMAIN mint_records \cup {k}
                  /\ mint_records'[k].lock_id = ret'.lock_id
                  /\ mint_records'[k].source_chain = ret'.source_chain
                  /\ \A a \in Authorities :
                       bridges'[a].total_minted # bridges[a].total_minted
                       => bridges'[a].total_minted
                            = Wrap(bridges[a].total_minted + mint_records'[k].amount)
      ]_vars

\* C2: threshold enforcement.  A mint_tokens on an unpaused bridge, for an
\* active source chain and a pair not minted yet, succeeds only if at least
\* threshold of the supplied signatures were made by the validator at the
\* same index, and with fewer it fails for lack of (valid) signatures and
\* mints nothing.
C2_ThresholdEnforcement ==
    [][ \A a \in Authorities :
          ( /\ ret'.op = "mint_tokens"
            /\ bridges[a].exists /\ ~bridges[a].is_paused
            /\ chain_exists(bridges[a], ret'.source_chain)
            /\ ~PairMinted(ret'.lock_id, ret'.source_chain) )
          => /\ ret'.err = "Ok" => ret'.signed >= bridges[a].threshold
             /\ ret'.signed < bridges[a].threshold
                  => /\ ret'.err \in {"InsufficientValidSignatures",
                                      "InsufficientSignatures"}
                     /\ mint_records' = mint_records
                     /\ bridges' = bridges
      ]_vars

\* the validator-set condition of the claim
GoodValidatorSet(validators, threshold) ==
    1 <= threshold /\ threshold <= Len(validators) /\ Len(validators) <= 20

ValidatorSetErrors == {"InvalidThreshold", "InsufficientValidators", "TooManyValidators"}

\* C10: in every reachable state of a bridge 1 <= threshold <= len(validators)
\* <= 20; initialize_bridge and update_validators never accept an input that
\* violates this, reject it with InvalidThreshold, InsufficientValidators or
\* TooManyValidators once the handler runs (fresh account, respectively the
\* authority signing), and a rejected call leaves the bridge as it was.
C10_ValidatorSetInvariant ==
    /\ [](\A a \in Authorities :
            bridges[a].exists
            => GoodValidatorSet(bridges[a].validators, bridges[a].threshold))
    /\ [][ /\ ret'.op = "initialize_bridge"
             => \A a \in Authorities, vs \in ValidatorLists, t \in Thresholds :
                  (~GoodValidatorSet(vs, t) /\ initialize_bridge(a, vs, t))
                  => /\ ret'.err # "Ok" /\ bridges' = bridges
                     /\ ~bridges[a].exists => ret'.err \in ValidatorSetErrors
           /\ ret'.op = "update_validators"
             => \A a \in Authorities, c \in Authorities \cup {"X"},
                   vs \in ValidatorLists, t \in Thresholds :
                  (~GoodValidatorSet(vs, t) /\ update_validators(a, c, vs, t))
                  => /\ ret'.err # "Ok" /\ bridges' = bridges
                     /\ (bridges[a].exists /\ c = bridges[a].authority)
                          => ret'.err \in ValidatorSetErrors
         ]_vars

\* an update carrying one validator too many has just been rejected by a
\* bridge that holds the largest admissible set
C10_Witness ==
    /\ ret.op = "update_validators"
    /\ ret.err = "TooManyValidators"
    /\ bridges["A1"].exists
    /\ Len(bridges["A1"].validators) = MAX_VALIDATORS

-----------------------------------------------------------------------------
(* Properties of the wallet program *)

\* the account still lies at the address its seeds derive
AddressMatches == wallet.address = WalletSeeds(wallet.owner, wallet.recovery_hash)

\* C3 as stated: every executed operation raises the nonce by exactly 1, the
\* nonce never decreases, and every operation whose nonce differs from the
\* wallet's current nonce fails with InvalidNonce.
C3_AsStated ==
    [][ wallet.exists =>
          /\ wallet'.nonce >= wallet.nonce
          /\ \A user_op \in WalletUserOps, pd \in {"None", "Some"} :
               (ret'.op = "execute_user_operation" /\ execute_user_operation(user_op, pd))
               => /\ ret'.err = "Ok" => wallet'.nonce = wallet.nonce + 1
                  /\ user_op.nonce # wallet.nonce => ret'.err = "InvalidNonce"
      ]_vars

\* C3: nonce monotonicity and replay protection.  Every executed operation
\* carries the wallet's current nonce and raises it by exactly 1, the nonce
\* never decreases, and an operation whose nonce differs from the current one
\* never executes and changes nothing: it fails with InvalidNonce when the
\* call reaches the nonce check, with WalletFrozen on a frozen wallet, and
\* with ConstraintSeeds on a wallet whose owner a recovery has replaced.
C3_NonceMonotonicity ==
    [][ wallet.exists =>
          /\ wallet'.nonce >= wallet.nonce
          /\ \A user_op \in WalletUserOps, pd \in {"None", "Some"} :
               (ret'.op = "execute_user_operation" /\ execute_user_operation(user_op, pd))
               => /\ ret'.err = "Ok"
                       => /\ user_op.nonce = wallet.nonce
                          /\ wallet'.nonce = wallet.nonce + 1
                  /\ user_op.nonce # wallet.nonce
                       => /\ wallet' = wallet
                          /\ ret'.err = IF ~AddressMatches THEN "ConstraintSeeds"
                                        ELSE IF wallet.is_frozen THEN "WalletFrozen"
                                        ELSE "InvalidNonce"
      ]_vars

\* an operation was rejected for its nonce by a wallet that has executed
\* operations before
C3_Witness ==
    /\ ret.op = "execute_user_operation"
    /\ ret.err = "InvalidNonce"
    /\ wallet.nonce = 2
    /\ wallet.owner = "O1"

\* C5: recovery quorum.  With g guardians registered when a guardian
\* approves, floor(g/2)+1 approvals are required: an accepted approval that
\* brings the count to that number or beyond sets the owner to the request's
\* new_owner and clears pending_recovery in the same step, an accepted
\* approval below it only records the approval, and the owner changes in no
\* other step.
C5_RecoveryQuorum ==
    [][ /\ (wallet.exists /\ wallet'.owner # wallet.owner)
             => /\ ret'.op = "approve_recovery"
                /\ wallet.pending_recovery.some
                /\ Len(wallet.pending_recovery.guardian_approvals) + 1
                     >= (Len(wallet.guardians) \div 2) + 1
                /\ wallet'.owner = wallet.pending_recovery.new_owner
                /\ ~wallet'.pending_recovery.some
        /\ (wallet.pending_recovery.some /\ wallet'.pending_recovery.some)
             => wallet'.owner = wallet.owner
        /\ \A g \in GuardianKeys \cup {"X"} :
             (ret'.op = "approve_recovery" /\ ret'.err = "Ok" /\ approve_recovery(g))
             => IF Len(wallet.pending_recovery.guardian_approvals) + 1
                     >= (Len(wallet.guardians) \div 2) + 1
                THEN /\ wallet'.owner = wallet.pending_recovery.new_owner
                     /\ ~wallet'.pending_recovery.some
                ELSE /\ wallet'.owner = wallet.owner
                     /\ wallet'.pending_recovery.some
                     /\ wallet'.pending_recovery.guardian_approvals
                          = Append(wallet.pending_recovery.guardian_approvals, g)
      ]_vars

\* with four guardians, an approval has just completed a recovery
C5_Witness ==
    /\ ret.op = "approve_recovery"
    /\ ret.err = "Ok"
    /\ Len(wallet.guardians) = 4
    /\ wallet.owner = "N1"
    /\ ~wallet.pending_recovery.some

\* C6: daily-limit window.  An execute_user_operation without paymaster data
\* that reaches the window code (wallet not frozen, nonce current) first
\* resets daily_spent and last_reset when a day has passed since last_reset;
\* it then fails with DailyLimitExceeded unless daily_spent + max_fee_per_gas
\* <= daily_limit, and on success daily_spent has grown by max_fee_per_gas.
C6_DailyLimitWindow ==
    [][ \A user_op \in DailyUserOps :
          ( /\ ret'.op = "execute_user_operation"
            /\ execute_user_operation(user_op, "None")
            /\ wallet.exists /\ AddressMatches /\ ~wallet.is_frozen
            /\ user_op.nonce = wallet.nonce )
          => LET reset == clock - wallet.last_reset >= 86400
                 spent == IF reset THEN 0 ELSE wallet.daily_spent
             IN IF spent + user_op.max_fee_per_gas <= wallet.daily_limit
                THEN /\ ret'.err = "Ok"
                     /\ wallet'.daily_spent = spent + user_op.max_fee_per_gas
                     /\ wallet'.last_reset = IF reset THEN clock ELSE wallet.last_reset
                ELSE /\ ret'.err = "DailyLimitExceeded"
                     /\ wallet' = wallet
      ]_vars

\* C8: while the wallet is frozen every execute_user_operation fails with
\* WalletFrozen and leaves nonce, daily_spent and last_reset unchanged.
C8_FrozenWallet ==
    [][ \A user_op \in WalletUserOps, pd \in {"None", "Some"} :
          ( /\ wallet.exists /\ wallet.is_frozen
            /\ ret'.op = "execute_user_operation"
            /\ execute_user_operation(user_op, pd) )
          => /\ ret'.err = "WalletFrozen"
             /\ wallet'.nonce = wallet.nonce
             /\ wallet'.daily_spent = wallet.daily_spent
             /\ wallet'.last_reset = wallet.last_reset
      ]_vars

\* C9: is_frozen turns true only in a freeze_wallet by a registered guardian
\* (a non-guardian caller fails with UnauthorizedGuardian and changes
\* nothing) and turns false only in an unfreeze_wallet by the current owner.
C9_FreezeAuthorization ==
    [][ wallet.exists =>
          /\ (~wallet.is_frozen /\ wallet'.is_frozen)
               => /\ ret'.op = "freeze_wallet"
                  /\ \E g \in FewGuardianKeys :
                       Contains(wallet.guardians, g) /\ freeze_wallet(g)
          /\ (wallet.is_frozen /\ ~wallet'.is_frozen)
               => /\ ret'.op = "unfreeze_wallet"
                  /\ unfreeze_wallet(wallet.owner)
          /\ \A g \in FewGuardianKeys \cup Owners \cup {"X"} :
               ( /\ ret'.op = "freeze_wallet" /\ freeze_wallet(g)
                 /\ ~Contains(wallet.guardians, g) )
               => ret'.err = "UnauthorizedGuardian" /\ wallet' = wallet
      ]_vars

-----------------------------------------------------------------------------
(* Properties of the entry-point program *)

\* the operation an event reports does not validate as Valid: its
\* call_gas_limit or its max_fee_per_gas (fields 4 and 5 of the hashed
\* tuple) is zero
ReportsInvalidOp(event) == event.user_op_hash[4] = 0 \/ event.user_op_hash[5] = 0

-----------------------------------------------------------------------------
(* Properties of the paymaster program *)

\* C7: token-payment settlement.  For a TokenPayment context of a supported
\* token, post_op in mode OpSucceeded and in mode OpReverted both add
\* actual_gas_cost * rate_per_lamport to the token's total_collected, and the
\* refund is pre_charge saturating-minus that amount.
C7_TokenSettlement ==
    [][ \A mode \in {"OpSucceeded", "OpReverted"}, context \in PaymentContexts,
           cost \in ActualGasCosts :
          ( /\ ret'.op = "post_op" /\ ret'.err = "Ok"
            /\ post_op(mode, context, cost)
            /\ context.payment_method.kind = "TokenPayment"
            /\ context.token_account # "None"
            /\ find_token(paymaster, context.payment_method.token_mint) # 0 )
          => LET i == find_token(paymaster, context.payment_method.token_mint)
                 tokens_for_gas == cost * paymaster.supported_tokens[i].rate_per_lamport
             IN /\ paymaster'.supported_tokens[i].total_collected
                     = paymaster.supported_tokens[i].total_collected + tokens_for_gas
                /\ ret'.refund = IF context.pre_charge >= tokens_for_gas
                                 THEN context.pre_charge - tokens_for_gas ELSE 0
      ]_vars

-----------------------------------------------------------------------------
(* Properties of the bridge ledger *)

\* ids of the lock and burn records of bridge a
LockIdsOf(a) ==
    {lock_records[s].id : s \in {x \in DOMAIN lock_records : x[2] = a}}
BurnIdsOf(a) ==
    {burn_records[s].id : s \in {x \in DOMAIN burn_records : x[2] = a}}

RecordCount(a) ==
    Cardinality({x \in DOMAIN lock_records : x[2] = a})
    + Cardinality({x \in DOMAIN burn_records : x[2] = a})

\* C11: a successful lock_tokens or burn_tokens creates exactly one record,
\* whose id is the bridge nonce at the time of the call and larger than every
\* id assigned before, and raises the nonce by exactly 1; so in every state
\* the lock and burn records of a bridge carry pairwise different ids, one
\* for each value below the nonce.
C11_SharedIdSpace ==
    /\ [](\A a \in Authorities :
            /\ LockIdsOf(a) \cap BurnIdsOf(a) = {}
            /\ Cardinality(LockIdsOf(a) \cup BurnIdsOf(a)) = RecordCount(a)
            /\ LockIdsOf(a) \cup BurnIdsOf(a) = 0..(bridges[a].nonce - 1))
    /\ [][ \A a \in Authorities :
             (ret'.op \in {"lock_tokens", "burn_tokens"} /\ ret'.err = "Ok"
              /\ bridges'[a] # bridges[a])
             => /\ bridges'[a].nonce = bridges[a].nonce + 1
                /\ LET new == IF ret'.op = "lock_tokens"
                               THEN LockIdsOf(a)' \ LockIdsOf(a)
                               ELSE BurnIdsOf(a)' \ BurnIdsOf(a)
                   IN  /\ new = {bridges[a].nonce}
                       /\ \A i \in LockIdsOf(a) \cup BurnIdsOf(a) :
                            i < bridges[a].nonce
                /\ RecordCount(a)' = RecordCount(a) + 1
                /\ ret'.op = "lock_tokens" => burn_records' = burn_records
                /\ ret'.op = "burn_tokens" => lock_records' = lock_records
         ]_vars

\* a burn has just taken id 2 after a lock took 0 and a burn took 1
C11_Witness ==
    /\ ret.op = "burn_tokens" /\ ret.err = "Ok"
    /\ \E a \in Authorities :
        /\ bridges[a].nonce = 3
        /\ LockIdsOf(a) = {0}
        /\ BurnIdsOf(a) = {1, 2}

\* C12: on a paused bridge lock_tokens, mint_tokens and burn_tokens each fail
\* with BridgePaused and change neither the bridge (nonce, totals, chain
\* volumes) nor any record.
C12_PauseGate ==
    [][ \A a \in Authorities :
          (bridges[a].is_paused
           /\ ret'.op \in {"lock_tokens", "mint_tokens", "burn_tokens"})
          => /\ ret'.err = "BridgePaused"
             /\ UNCHANGED bridgeVars
      ]_vars

-----------------------------------------------------------------------------
(* Properties of the hash helpers *)

HashOps == {"wallet.calculate_user_op_hash", "entry_point.calculate_user_op_hash"}

SameHashedFields(u, v) ==
    /\ u.sender = v.sender
    /\ u.nonce = v.nonce
    /\ u.call_data = v.call_data
    /\ u.call_gas_limit = v.call_gas_limit
    /\ u.max_fee_per_gas = v.max_fee_per_gas

\* C13: for every user operation the wallet's and the entry point's
\* calculate_user_op_hash return the same value, and two operations that
\* agree on sender, nonce, call_data, call_gas_limit and max_fee_per_gas have
\* the same hash under both, whatever their other fields are.
C13_HashAgreement ==
    ret.op \in HashOps
    => /\ ret.hash = wallet_calculate_user_op_hash(ret.user_op)
       /\ ret.hash = calculate_user_op_hash(ret.user_op)
       /\ \A v \in HashUserOps :
            SameHashedFields(ret.user_op, v)
            => /\ wallet_calculate_user_op_hash(v) = ret.hash
               /\ calculate_user_op_hash(v) = ret.hash

\* the entry point has hashed an operation with unequal gas fields, init
\* code, a paymaster and the second signature
C13_Witness ==
    /\ ret.op = "entry_point.calculate_user_op_hash"
    /\ ret.user_op.call_gas_limit = 256
    /\ ret.user_op.max_fee_per_gas = 1
    /\ ret.user_op.init_code = <<7>>
    /\ ret.user_op.paymaster_and_data = <<"P1">>
    /\ ret.user_op.signature = "S2"
    /\ ret.hash = wallet_calculate_user_op_hash(
                      [ret.user_op EXCEPT !.init_code = <<>>, !.signature = "S1",
                                          !.paymaster_and_data = <<>>])

-----------------------------------------------------------------------------
(* Properties of paymaster validation *)

\* C14: parse_paymaster_data accepts exactly two shapes: the single byte 0
\* (Sponsored) and byte 1 followed by a 32-byte mint and an 8-byte
\* little-endian amount, 41 bytes in all (TokenPayment of that mint and
\* amount); every other buffer fails with InvalidPaymasterData.
C14_PaymasterDataDecoding ==
    ret.op = "parse_paymaster_data"
    => IF ret.data = <<0>>
       THEN ret.err = "Ok" /\ ret.result.value = Sponsored
       ELSE IF Len(ret.data) = 41 /\ ret.data[1] = 1
       THEN /\ ret.err = "Ok"
            /\ ret.result.value.kind = "TokenPayment"
            /\ ret.result.value.token_mint = SubSeq(ret.data, 2, 33)
            /\ to_le_bytes(ret.result.value.max_token_amount) = SubSeq(ret.data, 34, 41)
       ELSE ret.err = "InvalidPaymasterData"

SponsoredBuffers ==
    {d \in PaymasterDataBuffers :
        ~parse_paymaster_data(d).is_err
        /\ parse_paymaster_data(d).value.kind = "Sponsored"}

\* C15: validate_paymaster_user_op with a Sponsored method fails with
\* PaymasterInactive if the paymaster is not active, otherwise with
\* UserNotAllowed if allowed_users is non-empty and lacks the user, otherwise
\* with CostTooHigh if max_cost exceeds config.max_cost_per_operation;
\* otherwise it succeeds with a Sponsored context of that user whose
\* pre_charge is max_cost.  In every case the paymaster is left unchanged.
C15_SponsoredValidation ==
    [][ ret'.op = "validate_paymaster_user_op"
        => \A user \in {"U1", "U2"}, data \in SponsoredBuffers,
              remaining \in {<<>>, <<"U1", "TA1">>}, max_cost \in MaxCosts :
             (paymaster.exists
              /\ validate_paymaster_user_op(user, data, remaining, max_cost))
             => /\ paymaster' = paymaster
                /\ ret'.err =
                     IF ~paymaster.is_active THEN "PaymasterInactive"
                     ELSE IF paymaster.config.allowed_users # <<>>
                             /\ \A i \in 1..Len(paymaster.config.allowed_users) :
                                   paymaster.config.allowed_users[i] # user
                     THEN "UserNotAllowed"
                     ELSE IF max_cost > paymaster.config.max_cost_per_operation
                     THEN "CostTooHigh"
                     ELSE "Ok"
                /\ ret'.err = "Ok"
                   => /\ ret'.context.pre_charge = max_cost
                      /\ ret'.context.payment_method.kind = "Sponsored"
                      /\ ret'.context.user = user
      ]_vars

\* a listed user has just been sponsored at exactly the cost cap
C15_Witness ==
    /\ ret.op = "validate_paymaster_user_op" /\ ret.err = "Ok"
    /\ ret.context.payment_method.kind = "Sponsored"
    /\ paymaster.config.allowed_users = <<"U1">>
    /\ ret.context.user = "U1"
    /\ ret.context.pre_charge = paymaster.config.max_cost_per_operation

TokenBuffers ==
    {d \in PaymasterDataBuffers :
        ~parse_paymaster_data(d).is_err
        /\ parse_paymaster_data(d).value.kind = "TokenPayment"}

\* C16: on an active paymaster, validation of TokenPayment{token_mint,
\* max_token_amount} with the user's two accounts supplied fails with
\* TokenNotSupported unless token_mint is an active entry of
\* supported_tokens, fails with InsufficientTokenBalance
\* unless max_token_amount >= max_cost * rate_per_lamport (the product taken
\* in the integers), and on success returns pre_charge = max_cost *
\* rate_per_lamport.
C16_TokenValidation ==
    [][ ret'.op = "validate_paymaster_user_op"
        => \A user \in {"U1", "U2"}, data \in TokenBuffers,
              remaining \in {<<"U1", "TA1">>}, max_cost \in MaxCosts :
             (paymaster.exists /\ paymaster.is_active
              /\ validate_paymaster_user_op(user, data, remaining, max_cost))
             => LET method == parse_paymaster_data(data).value
                    i == find_active_token(paymaster, method.token_mint)
                    required == max_cost * paymaster.supported_tokens[i].rate_per_lamport
                IN  /\ i = 0 => ret'.err = "TokenNotSupported"
                    /\ (i # 0 /\ method.max_token_amount < required)
                       => ret'.err = "InsufficientTokenBalance"
                    /\ ret'.err = "Ok" => ret'.context.pre_charge = required
      ]_vars

-----------------------------------------------------------------------------
(* Properties of paymaster settlement *)

\* C17: for a Sponsored context, post_op in mode OpSucceeded and in mode
\* OpReverted both increase total_sponsored by exactly actual_gas_cost and
\* change no token's total_collected.
C17_SponsoredSettlement ==
    [][ ret'.op = "post_op"
        => \A mode \in {"OpSucceeded", "OpReverted"}, context \in PaymentContexts,
              cost \in ActualGasCosts :
             (paymaster.exists
              /\ context.payment_method.kind = "Sponsored"
              /\ post_op(mode, context, cost))
             => /\ ret'.err = "Ok"
                /\ paymaster'.total_sponsored = paymaster.total_sponsored + cost
                /\ paymaster'.supported_tokens = paymaster.supported_tokens
      ]_vars

\* C18: post_op in mode PostOpReverted performs no accounting: total_sponsored,
\* every token's total_collected and the paymaster's other counters
\* (total_operations) are the same after the call as before it.
C18_PostOpRevertedFrame ==
    [][ ret'.op = "post_op"
        => \A context \in PaymentContexts, cost \in ActualGasCosts :
             (paymaster.exists /\ post_op("PostOpReverted", context, cost))
             => /\ paymaster'.total_sponsored = paymaster.total_sponsored
                /\ paymaster'.supported_tokens = paymaster.supported_tokens
                /\ paymaster'.total_operations = paymaster.total_operations
      ]_vars

-----------------------------------------------------------------------------
(* Properties of the entry point's validation and stakes *)

\* C19: validate_user_operation yields GasLimitExceeded when call_gas_limit
\* is 0, otherwise InsufficientFunds when max_fee_per_gas is 0, otherwise
\* Valid, whatever the other fields of the operation and the state of the
\* entry point are; simulate_validation reports that result and changes no
\* account.
C19_ValidationPreFilter ==
    [][ (ret'.op = "simulate_validation" /\ entry_point.exists)
        => /\ ret'.err = "Ok"
           /\ entry_point' = entry_point
           /\ events'[1].validation_result =
                IF ret'.user_op.call_gas_limit = 0 THEN "GasLimitExceeded"
                ELSE IF ret'.user_op.max_fee_per_gas = 0 THEN "InsufficientFunds"
                ELSE "Valid"
      ]_vars

\* an operation with neither gas limit nor fee was reported as
\* GasLimitExceeded, another with a gas limit but no fee would be
\* InsufficientFunds
C19_Witness ==
    /\ ret.op = "simulate_validation" /\ ret.err = "Ok"
    /\ events[1].validation_result = "GasLimitExceeded"
    /\ ret.user_op.call_gas_limit = 0 /\ ret.user_op.max_fee_per_gas = 0
    /\ ret.user_op.signature = "S2"

\* C20: a PaymasterStake created by add_stake has withdraw_time = 0 and an
\* unstake_delay no smaller than entry_point.unstake_delay; withdraw_stake on
\* an existing stake succeeds exactly when withdraw_time > 0 and current_time
\* >= withdraw_time and fails with WithdrawTimeNotReached otherwise; every
\* successful withdrawal comes after an unlock_stake of that stake, at least
\* unstake_delay seconds after the most recent one.
C20_StakeLock ==
    /\ [](\A p \in StakeOwners :
            paymaster_stake[p].exists
            => /\ paymaster_stake[p].unstake_delay >= entry_point.unstake_delay
               /\ paymaster_stake[p].last_unlock = -1
                  => paymaster_stake[p].withdraw_time = 0)
    /\ [][ \A p \in StakeOwners :
             /\ (ret'.op = "add_stake" /\ ret'.err = "Ok"
                 /\ paymaster_stake'[p] # paymaster_stake[p])
                => /\ paymaster_stake'[p].withdraw_time = 0
                   /\ paymaster_stake'[p].unstake_delay >= entry_point.unstake_delay
             /\ (ret'.op = "withdraw_stake" /\ paymaster_stake[p].exists
                 /\ withdraw_stake(p, "WA"))
                => LET st == paymaster_stake[p] IN
                   /\ ret'.err = IF st.withdraw_time > 0 /\ clock >= st.withdraw_time
                                 THEN "Ok" ELSE "WithdrawTimeNotReached"
                   /\ ret'.err = "Ok"
                      => /\ st.last_unlock >= 0
                         /\ clock >= st.last_unlock + st.unstake_delay
                         /\ ~paymaster_stake'[p].exists
         ]_vars

\* a stake unlocked at time 1 with the default delay has just been withdrawn
\* at the first admissible second
C20_Witness ==
    /\ ret.op = "withdraw_stake" /\ ret.err = "Ok"
    /\ clock = 1 + UNSTAKE_DELAY
    /\ events[1].amount = 1

\* C21: the supported_chains list of a bridge holds at most 50 entries and no
\* two of its entries have the same chain_id.
C21_ChainRegistry ==
    \A a \in Authorities :
        LET chains == bridges[a].supported_chains IN
        /\ Len(chains) <= 50
        /\ \A i, j \in 1..Len(chains) :
              chains[i].chain_id = chains[j].chain_id => i = j

\* C22: the supported_tokens list of the paymaster holds at most 20 entries,
\* every token mint appears in it at most once, and every entry has a
\* rate_per_lamport greater than zero.
C22_TokenRegistry ==
    LET tokens == paymaster.supported_tokens IN
    /\ Len(tokens) <= 20
    /\ \A i, j \in 1..Len(tokens) : tokens[i].mint = tokens[j].mint => i = j
    /\ \A i \in 1..Len(tokens) : tokens[i].rate_per_lamport > 0

\* C23: a handle_ops call on the initialized entry point returns success for
\* every batch and increases total_operations by exactly the length of the
\* batch (one UserOperationEvent per operation precedes the BatchProcessed
\* event); total_operations never decreases.
C23_BatchAccounting ==
    [][(ret'.op = "handle_ops" /\ entry_point.exists)
       => /\ ret'.err = "Ok"
          /\ entry_point'.total_operations
               = entry_point.total_operations + Len(events') - 1
          /\ entry_point'.total_operations >= entry_point.total_operations]_vars

\* C24: the MintRecord of a mint is identified by the full pair
\* (lock_id, source_chain): a mint_tokens call for a pair that has not been
\* minted never finds the record of another pair in its place, so it does not
\* fail with AccountAlreadyInUse or AlreadyMinted.
C24_MintRecordKeying ==
    [][(ret'.op = "mint_tokens" /\ ~PairMinted(ret'.lock_id, ret'.source_chain))
       => ret'.err \notin {"AccountAlreadyInUse", "AlreadyMinted"}]_vars

\* C25: recovery step preconditions.  On an existing wallet initiate_recovery
\* fails with UnauthorizedGuardian for a caller that is not a guardian and
\* with RecoveryInProgress when a recovery is pending, and otherwise creates
\* a request whose guardian_approvals is exactly the initiator;
\* approve_recovery fails with UnauthorizedGuardian for a non-guardian, with
\* NoRecoveryInProgress when nothing is pending and with AlreadyApproved for
\* a guardian already in guardian_approvals; a failing call leaves the wallet
\* unchanged and guardian_approvals never holds a key twice.
C25_RecoveryPreconditions ==
    [][ /\ (ret'.op = "initiate_recovery" /\ wallet.exists)
            => \A g \in GuardianKeys \cup {"X"}, n \in NewOwners :
                 initiate_recovery(g, n)
                 => IF ~Contains(wallet.guardians, g)
                    THEN ret'.err = "UnauthorizedGuardian" /\ wallet' = wallet
                    ELSE IF wallet.pending_recovery.some
                    THEN ret'.err = "RecoveryInProgress" /\ wallet' = wallet
                    ELSE /\ ret'.err = "Ok"
                         /\ wallet'.pending_recovery.some
                         /\ wallet'.pending_recovery.new_owner = n
                         /\ wallet'.pending_recovery.guardian_approvals = <<g>>
        /\ (ret'.op = "approve_recovery" /\ wallet.exists)
            => \A g \in GuardianKeys \cup {"X"} :
                 approve_recovery(g)
                 => IF ~Contains(wallet.guardians, g)
                    THEN ret'.err = "UnauthorizedGuardian" /\ wallet' = wallet
                    ELSE IF ~wallet.pending_recovery.some
                    THEN ret'.err = "NoRecoveryInProgress" /\ wallet' = wallet
                    ELSE IF Contains(wallet.pending_recovery.guardian_approvals, g)
                    THEN ret'.err = "AlreadyApproved" /\ wallet' = wallet
                    ELSE ret'.err = "Ok"
        /\ ret'.err # "Ok" => wallet' = wallet
        /\ LET approvals == wallet'.pending_recovery.guardian_approvals IN
           \A i, j \in 1..Len(approvals) : approvals[i] = approvals[j] => i = j
      ]_vars

\* C26: nonce commit point.  An execute_user_operation that fails with
\* DailyLimitExceeded or InvalidSignature leaves wallet.nonce incremented by
\* one; one that fails with WalletFrozen or InvalidNonce leaves the nonce
\* unchanged.
C26_NonceCommitPoint ==
    [][ret'.op = "execute_user_operation"
       => /\ ret'.err \in {"DailyLimitExceeded", "InvalidSignature"}
               => wallet'.nonce = Wrap(wallet.nonce + 1)
          /\ ret'.err \in {"WalletFrozen", "InvalidNonce"}
               => wallet'.nonce = wallet.nonce]_vars

\* C27: an approve_recovery that completes the recovery increments
\* wallet.nonce by exactly one in the step that replaces the owner, and one
\* that does not reach the quorum leaves the nonce unchanged; after a
\* completed recovery an operation on the unfrozen wallet that carries a
\* nonce from before the recovery fails with InvalidNonce.
C27_RecoveryInvalidatesNonce ==
    [][ /\ (ret'.op = "approve_recovery" /\ ret'.err = "Ok")
            => IF wallet'.pending_recovery.some
               THEN wallet'.nonce = wallet.nonce /\ wallet'.owner = wallet.owner
               ELSE /\ wallet'.nonce = wallet.nonce + 1
                    /\ wallet'.owner = wallet.pending_recovery.new_owner
        /\ (ret'.op = "execute_user_operation" /\ wallet.owner \in NewOwners
                /\ ~wallet.is_frozen)
            => \A user_op \in WalletUserOps, pd \in {"None", "Some"} :
                 (user_op.nonce < wallet.nonce /\ execute_user_operation(user_op, pd))
                 => ret'.err = "InvalidNonce"
      ]_vars

\* C28: quorum is acted on as soon as it is reached: in no reachable state
\* of a wallet with at least one guardian does a pending recovery hold
\* floor(guardian_count / 2) + 1 approvals or more.
C28_NoPendingQuorum ==
    (wallet.exists /\ wallet.pending_recovery.some /\ Len(wallet.guardians) >= 1)
    => Len(wallet.pending_recovery.guardian_approvals)
         < (Len(wallet.guardians) \div 2) + 1

\* C29: guardian-set invariant.  Under add_guardian and remove_guardian the
\* guardians list has at most 10 entries and no duplicates.  Called by the
\* owner, add_guardian fails with TooManyGuardians on a list of 10 entries
\* and with GuardianAlreadyExists for a registered guardian, and otherwise
\* appends the guardian; remove_guardian fails with GuardianNotFound for an
\* unregistered guardian and otherwise removes it; a failing call leaves the
\* list unchanged.
C29_GuardianSet ==
    [][LET gs == wallet.guardians
           gs2 == wallet'.guardians
           Registered(g) == \E i \in 1..Len(gs) : gs[i] = g
           Callers == Owners \cup NewOwners \cup {"X"}
           Keys == FewGuardianKeys \cup {MoreGuardianKeys[i] : i \in 1..Len(MoreGuardianKeys)}
       IN
       /\ Len(gs2) <= 10
       /\ \A i, j \in 1..Len(gs2) : gs2[i] = gs2[j] => i = j
       /\ (ret'.err # "Ok" /\ ret'.op \in {"add_guardian", "remove_guardian"})
            => gs2 = gs
       /\ ret'.op = "add_guardian"
            => \A o \in Callers, g \in Keys :
                 (OwnerConstraint(o) = {} /\ add_guardian(o, g))
                 => IF Len(gs) >= 10 THEN ret'.err = "TooManyGuardians"
                    ELSE IF Registered(g) THEN ret'.err = "GuardianAlreadyExists"
                    ELSE ret'.err = "Ok" /\ gs2 = Append(gs, g)
       /\ ret'.op = "remove_guardian"
            => \A o \in Callers, g \in Keys :
                 (OwnerConstraint(o) = {} /\ remove_guardian(o, g))
                 => IF ~Registered(g) THEN ret'.err = "GuardianNotFound"
                    ELSE /\ ret'.err = "Ok"
                         /\ Len(gs2) = Len(gs) - 1
                         /\ \A i \in 1..Len(gs2) : gs2[i] # g
                         /\ \A i \in 1..Len(gs) :
                               gs[i] # g => \E j \in 1..Len(gs2) : gs2[j] = gs[i]
      ]_vars

\* an add_guardian of the owner has just been refused on a full list
C29_Witness ==
    /\ ret.op = "add_guardian"
    /\ ret.err = "TooManyGuardians"
    /\ Len(wallet.guardians) = 10

\* A lock_tokens, burn_tokens or mint_tokens call that names a chain without
\* a registered, active entry fails and changes nothing.  Its error is
\* UnsupportedChain; when strict is FALSE, the checks that run before the
\* chain check report their own error instead.
ChainGate(strict) ==
    \A a \in Authorities :
        LET b == bridges[a]
            Supported(id) ==
                \E i \in 1..Len(b.supported_chains) :
                    /\ b.supported_chains[i].chain_id = id
                    /\ b.supported_chains[i].is_active
            Gate(early) ==
                /\ ret'.err = IF strict \/ early = "" THEN "UnsupportedChain" ELSE early
                /\ UNCHANGED bridgeVars
            paused == IF b.is_paused THEN "BridgePaused" ELSE ""
        IN  b.exists =>
            /\ ret'.op = "lock_tokens"
                 => \A amt \in LockAmounts, dc \in ChainIds, m \in TokenMints,
                       t \in Transfers :
                      (~Supported(dc) /\ lock_tokens(a, amt, dc, m, t)) => Gate(paused)
            /\ ret'.op = "burn_tokens"
                 => \A amt \in LockAmounts, dc \in ChainIds, t \in Transfers :
                      (~Supported(dc) /\ burn_tokens(a, amt, dc, "M1", t)) => Gate(paused)
            /\ (ret'.op = "mint_tokens" /\ ~Supported(ret'.source_chain))
                 => LET l == ret'.lock_id
                        sc == ret'.source_chain
                    IN  \A sigs \in SigLists(message_hash(l, sc, "M1", 1)) :
                          mint_tokens(a, l, sc, "M1", 1, sigs, "ok")
                          => Gate(IF MintRecordSeeds(l, sc) \in DOMAIN mint_records
                                  THEN "AccountAlreadyInUse"
                                  ELSE IF b.is_paused THEN "BridgePaused"
                                  ELSE IF Len(sigs) < b.threshold
                                  THEN "InsufficientSignatures"
                                  ELSE "")

\* C30 as stated: chain gate.  lock_tokens and burn_tokens (destination
\* chain) and mint_tokens (source chain) fail with UnsupportedChain whenever
\* the chain has no registered, active entry, and the failing call leaves
\* nonce, totals and volumes unchanged and creates no record.
C30_AsStated == [][ChainGate(TRUE)]_vars

\* C30, amended: such a call always fails and leaves nonce, totals, volumes
\* and records unchanged; it fails with UnsupportedChain when it reaches the
\* chain check, with BridgePaused on a paused bridge, and a mint_tokens fails
\* with the account-in-use error when the record address is taken and with
\* InsufficientSignatures when it carries fewer signatures than the threshold.
C30_ChainGate == [][ChainGate(FALSE)]_vars

\* a lock for an unregistered chain has just been refused by a bridge that
\* has a registered chain
C30_Witness ==
    /\ ret.op = "lock_tokens"
    /\ ret.err = "UnsupportedChain"
    /\ \E a \in Authorities : Len(bridges[a].supported_chains) >= 1

\* C31: sponsored operations bypass the spending window.  An
\* execute_user_operation that supplies paymaster data is never rejected
\* with DailyLimitExceeded and leaves daily_spent and last_reset unchanged,
\* whatever its max_fee_per_gas and the time since last_reset; on an
\* unfrozen wallet it succeeds when it carries the current nonce.
C31_SponsoredBypass ==
    [][ret'.op = "execute_user_operation"
       => \A user_op \in DailyUserOps :
            execute_user_operation(user_op, "Some")
            => /\ ret'.err # "DailyLimitExceeded"
               /\ wallet'.daily_spent = wallet.daily_spent
               /\ wallet'.last_reset = wallet.last_reset
               /\ (wallet.exists /\ ~wallet.is_frozen /\ user_op.nonce = wallet.nonce)
                    => ret'.err = "Ok" /\ wallet'.nonce = wallet.nonce + 1]_vars

\* two operations have executed in the first window with 90 of the limit of
\* 100 spent: one of them paid 90 and the other one was sponsored
C31_Witness ==
    /\ ret.op = "execute_user_operation"
    /\ ret.err = "Ok"
    /\ wallet.nonce = 2
    /\ wallet.daily_spent = 90
    /\ clock = 0

\* C32: entry-point replay protection.  In the events of a handle_ops batch
\* no operation (same sender, nonce and hashed fields) is reported as
\* successful more than once.
C32_ReplayProtection ==
    (ret.op = "handle_ops" /\ ret.err = "Ok")
    => \A i, j \in 1..(Len(events) - 1) :
         (/\ events[i].success
          /\ events[j].success
          /\ events[i].sender = events[j].sender
          /\ events[i].nonce = events[j].nonce
          /\ events[i].user_op_hash = events[j].user_op_hash)
         => i = j

\* C33: bounded sponsor liability.  A post_op call that performs accounting
\* charges at most the pre_charge of its context (the increase of
\* total_sponsored for Sponsored, of the token's total_collected for
\* TokenPayment), and a Sponsored charge is at most
\* config.max_cost_per_operation.
C33_BoundedLiability ==
    [][(ret'.op = "post_op" /\ ret'.err = "Ok")
       => \A mode \in {"OpSucceeded", "OpReverted"}, context \in PaymentContexts,
             cost \in ActualGasCosts :
            post_op(mode, context, cost)
            => /\ paymaster'.total_sponsored - paymaster.total_sponsored
                    <= context.pre_charge
               /\ paymaster'.total_sponsored - paymaster.total_sponsored
                    <= paymaster.config.max_cost_per_operation
               /\ \A i \in 1..Len(paymaster.supported_tokens) :
                     paymaster'.supported_tokens[i].total_collected
                       - paymaster.supported_tokens[i].total_collected
                       <= context.pre_charge]_vars

C35_CurrentGuardiansOnly ==
    [][(/\ ret'.op = "approve_recovery" /\ ret'.err = "Ok"
        /\ wallet.pending_recovery.some /\ ~wallet'.pending_recovery.some)
       => LET approvals == wallet.pending_recovery.guardian_approvals IN
          \A i \in 1..Len(approvals) :
             \E j \in 1..Len(wallet.guardians) : wallet.guardians[j] = approvals[i]]_vars

\* C36: recovery can always complete.  From every state with a pending
\* recovery and at least one guardian, when every current guardian keeps
\* calling approve_recovery, the recovery eventually completes and
\* pending_recovery becomes None.
C36_RecoveryCompletes ==
    (wallet.pending_recovery.some /\ Len(wallet.guardians) >= 1)
    ~> ~wallet.pending_recovery.some

\* C37: spending-cap invariant.  In every state of a wallet daily_spent is
\* at most daily_limit, whatever max_fee_per_gas values the operations carry
\* and however the clock advances.
C37_SpendingCap ==
    wallet.exists => wallet.daily_spent <= wallet.daily_limit

\* an operation has been accepted on top of 90 spent of the limit of 100:
\* its fee made the u64 sum wrap, and the stored daily_spent is 9
C37_Witness ==
    /\ ret.op = "execute_user_operation"
    /\ ret.err = "Ok"
    /\ wallet.nonce = 2
    /\ wallet.daily_spent = 9

\* the sum of the amounts of the records with the given keys
RECURSIVE SumAmounts(_, _)
SumAmounts(records, keys) ==
    IF keys = {} THEN 0
    ELSE LET k == CHOOSE x \in keys : TRUE
         IN  records[k].amount + SumAmounts(records, keys \ {k})

\* C38: ledger counter consistency.  In every state of a bridge total_locked
\* is the sum of the amounts of its LockRecords, and the total_volume of each
\* supported chain is the sum of the amounts of the locks and burns sent to
\* that chain_id and of the mints received from it.
C38_LedgerConsistency ==
    \A a \in Authorities :
        LET b == bridges[a]
            Locks(id) == {k \in DOMAIN lock_records :
                            lock_records[k].destination_chain = id}
            Burns(id) == {k \in DOMAIN burn_records :
                            burn_records[k].destination_chain = id}
            Mints(id) == {k \in DOMAIN mint_records :
                            mint_records[k].source_chain = id}
        IN  b.exists =>
            /\ b.total_locked = SumAmounts(lock_records, DOMAIN lock_records)
            /\ \A i \in 1..Len(b.supported_chains) :
                  LET id == b.supported_chains[i].chain_id IN
                  b.supported_chains[i].total_volume
                    = SumAmounts(lock_records, Locks(id))
                      + SumAmounts(burn_records, Burns(id))
                      + SumAmounts(mint_records, Mints(id))

\* C39: no empty custody records.  Every LockRecord and every BurnRecord has
\* amount > 0.
C39_NoEmptyRecords ==
    /\ \A k \in DOMAIN lock_records : lock_records[k].amount > 0
    /\ \A k \in DOMAIN burn_records : burn_records[k].amount > 0

\* C40: bridges are isolated from one another.  A mint_tokens call on a
\* bridge is refused because its MintRecord exists only when that bridge
\* itself has minted (each mint adds its amount of 1 to the bridge's
\* total_minted): a mint completed on the other bridge does not make it fail.
C40_BridgeIsolation ==
    [][(ret'.op = "mint_tokens"
        /\ ret'.err \in {"AccountAlreadyInUse", "AlreadyMinted"})
       => \A a \in BothAuthorities :
            \A sigs \in SigLists(message_hash(ret'.lock_id, 1, "M1", 1)) :
               mint_tokens(a, ret'.lock_id, 1, "M1", 1, sigs, "ok")
               => bridges[a].total_minted > 0]_vars

====
